---- MODULE Spec2Model ----
(* Open Vote Network voting contract (voting/src/lib.rs) with its on-chain   *)
(* crypto (voting/src/crypto.rs) and the voters' off-chain provers           *)
(* (off-chain/src/lib.rs).  The curve group is a cyclic group of order       *)
(* Order written additively; byte vectors are sequences of naturals.         *)
EXTENDS Integers, Sequences, FiniteSets, TLC

\* ------------------------------------------------------------------ bounds
MaxTime == 4

\* --------------------------------------------------- curve and scalar layer
\* order n of the group generated by GENERATOR (k256::Secp256k1)
Order == 13
\* number of values a Sha256 digest can take (more than Order, as 2^256 > n)
DigestSpace == 16

GENERATOR == 1
IDENTITY == 0
Points == 0 .. (Order - 1)
Scalars == 0 .. (Order - 1)

PAdd(p, q) == (p + q) % Order
PNeg(p) == (Order - p) % Order
PSub(p, q) == PAdd(p, PNeg(q))
PMul(p, s) == (p * s) % Order
SAdd(a, b) == (a + b) % Order
SSub(a, b) == (a + Order - b) % Order
SMul(a, b) == (a * b) % Order

\* Vec<u8> values: the empty vector, and one-element vectors standing for the
\* fixed-width encodings of a point, a scalar or a digest
EmptyVec == << >>
\* Option::None of the decoders (no encoding decodes to it)
None == -1

\* GroupEncoding::to_bytes, the compressed encoding: the identity encodes to
\* the all-zero vector
PointToBytes(p) == << p >>
\* the SEC1 uncompressed encoding of the same point: tag 4 and both coordinates
UncompressedBytes(p) == << p, 4 >>
ScalarToBytes(s) == << s >>

\* PublicKey::from_sec1_bytes(..).ok(): decodes the compressed and the
\* uncompressed encoding; None for the empty vector and for the identity
from_sec1_bytes(vec) ==
  IF /\ Len(vec) \in {1, 2}
     /\ vec[1] \in 1 .. (Order - 1)
     /\ (Len(vec) = 2 => vec[2] = 4)
    THEN vec[1] ELSE None

\* SecretKey::from_be_bytes(..).ok(): None for zero and for values >= n
from_be_bytes(vec) ==
  IF Len(vec) = 1 /\ vec[1] \in 1 .. (Order - 1) THEN vec[1] ELSE None

\* ScalarCore::from_be_slice(..).ok(): None for values >= n, zero is accepted
from_be_slice(vec) ==
  IF Len(vec) = 1 /\ vec[1] \in 0 .. (Order - 1) THEN vec[1] ELSE None

\* Sha256::digest on the encodings that occur: a fixed mixing of the bytes,
\* injective on the compressed encodings
Sha256(vec) ==
  IF vec = EmptyVec THEN << 6 >>
  ELSE << (5 * vec[1] + 3 + 8 * (Len(vec) - 1)) % DigestSpace >>

\* voting/src/crypto.rs hash_to_scalar: None stands for the trap of unwrap_abort
hash_to_scalar(bytes_to_hash) == from_be_slice(Sha256(bytes_to_hash))

\* util/src/lib.rs hash_to_scalar: the digest goes through
\* convert_vec_to_scalar, which refuses zero as well
util_hash_to_scalar(bytes_to_hash) == from_be_bytes(Sha256(bytes_to_hash))

\* ------------------------------------------------------------ proof records
DefaultSchnorr == [g_w |-> EmptyVec, r |-> EmptyVec]
DefaultOneInTwo ==
  [r1 |-> EmptyVec, r2 |-> EmptyVec, d1 |-> EmptyVec, d2 |-> EmptyVec,
   x |-> EmptyVec, y |-> EmptyVec, a1 |-> EmptyVec, b1 |-> EmptyVec,
   a2 |-> EmptyVec, b2 |-> EmptyVec]

\* Voter::default()
DefaultVoter ==
  [voting_key |-> EmptyVec, voting_key_zkp |-> DefaultSchnorr,
   reconstructed_key |-> EmptyVec, commitment |-> EmptyVec,
   vote |-> EmptyVec, vote_zkp |-> DefaultOneInTwo]

\* --------------------------------------------------------- on-chain crypto
\* verify_schnorr_zkp reaches trap() in unwrap_abort (g_w, r or z not decodable)
verify_schnorr_traps(g_x, schnorr) ==
  LET g_w == from_sec1_bytes(schnorr.g_w)
      r == from_be_bytes(schnorr.r)
  IN \/ g_w = None
     \/ r = None
     \/ hash_to_scalar(PointToBytes(PAdd(PAdd(GENERATOR, g_w), g_x))) = None

\* the boolean verify_schnorr_zkp returns when it does not trap
verify_schnorr_zkp(g_x, schnorr) ==
  LET g_w == from_sec1_bytes(schnorr.g_w)
      r == from_be_bytes(schnorr.r)
      value_to_hash == PAdd(PAdd(GENERATOR, g_w), g_x)
      z == hash_to_scalar(PointToBytes(value_to_hash))
      g_r == PMul(GENERATOR, r)
      g_x_z == PMul(g_x, z)
  IN PAdd(g_x_z, g_r) = g_w

OneInTwoDecoded(zkp) ==
  [r1 |-> from_be_bytes(zkp.r1), r2 |-> from_be_bytes(zkp.r2),
   d1 |-> from_be_bytes(zkp.d1), d2 |-> from_be_bytes(zkp.d2),
   x |-> from_sec1_bytes(zkp.x), y |-> from_sec1_bytes(zkp.y),
   a1 |-> from_sec1_bytes(zkp.a1), b1 |-> from_sec1_bytes(zkp.b1),
   a2 |-> from_sec1_bytes(zkp.a2), b2 |-> from_sec1_bytes(zkp.b2)]

OneInTwoChallenge(d) ==
  hash_to_scalar(PointToBytes(
    PAdd(PAdd(PAdd(PAdd(PAdd(d.x, d.y), d.a1), d.b1), d.a2), d.b2)))

\* verify_one_in_two_zkp reaches trap() in unwrap_abort
verify_one_in_two_traps(zkp, g_y) ==
  LET d == OneInTwoDecoded(zkp)
  IN \/ \E f \in DOMAIN d : d[f] = None
     \/ OneInTwoChallenge(d) = None

\* the boolean verify_one_in_two_zkp returns when it does not trap
verify_one_in_two_zkp(zkp, g_y) ==
  LET d == OneInTwoDecoded(zkp)
      c == OneInTwoChallenge(d)
  IN /\ c = SAdd(d.d1, d.d2)
     /\ d.a1 = PAdd(PMul(GENERATOR, d.r1), PMul(d.x, d.d1))
     /\ d.b1 = PAdd(PMul(g_y, d.r1), PMul(d.y, d.d1))
     /\ d.a2 = PAdd(PMul(GENERATOR, d.r2), PMul(d.x, d.d2))
     /\ d.b2 = PAdd(PMul(g_y, d.r2), PMul(PSub(d.y, GENERATOR), d.d2))

\* variant: the commitment is only required to be set
check_commitment_set(vote, commitment) == commitment # EmptyVec

check_commitment(vote, commitment) == Sha256(PointToBytes(vote)) = commitment

RECURSIVE SumPoints(_, _, _)
SumPoints(s, lo, hi) ==
  IF lo > hi THEN IDENTITY ELSE PAdd(s[lo], SumPoints(s, lo + 1, hi))

RECURSIVE SearchTally(_, _, _)
SearchTally(current_g, tally, yes_votes) ==
  IF current_g = tally THEN yes_votes
  ELSE SearchTally(PAdd(current_g, GENERATOR), tally, yes_votes + 1)

\* variant: the summation of the votes stops one short of the last
brute_force_tally_short(votes) ==
  SearchTally(IDENTITY, SumPoints(votes, 1, Len(votes) - 1), 0)

\* votes is non-empty here: result() traps on votes.get(0) otherwise
brute_force_tally(votes) ==
  SearchTally(IDENTITY, SumPoints(votes, 1, Len(votes)), 0)

\* ------------------------------------------------------- off-chain provers
create_schnorr_zkp(g_x, x, w) ==
  LET g_w == PMul(GENERATOR, w)
      value_to_hash == PAdd(PAdd(GENERATOR, g_w), g_x)
      z == hash_to_scalar(PointToBytes(value_to_hash))
      r == SSub(w, SMul(x, z))
  IN [g_w |-> PointToBytes(g_w), r |-> ScalarToBytes(r)]

create_one_in_two_zkp_yes(g_x, g_y, x, w, r1, d1) ==
  LET y == PAdd(PMul(g_y, x), GENERATOR)
      a1 == PAdd(PMul(GENERATOR, r1), PMul(g_x, d1))
      b1 == PAdd(PMul(g_y, r1), PMul(y, d1))
      a2 == PMul(GENERATOR, w)
      b2 == PMul(g_y, w)
      c == hash_to_scalar(PointToBytes(
             PAdd(PAdd(PAdd(PAdd(PAdd(g_x, y), a1), b1), a2), b2)))
      d2 == SSub(c, d1)
      r2 == SSub(w, SMul(x, d2))
  IN [r1 |-> ScalarToBytes(r1), r2 |-> ScalarToBytes(r2),
      d1 |-> ScalarToBytes(d1), d2 |-> ScalarToBytes(d2),
      x |-> PointToBytes(g_x), y |-> PointToBytes(y),
      a1 |-> PointToBytes(a1), b1 |-> PointToBytes(b1),
      a2 |-> PointToBytes(a2), b2 |-> PointToBytes(b2)]

create_one_in_two_zkp_no(g_x, g_y, x, w, r2, d2) ==
  LET y == PMul(g_y, x)
      a1 == PMul(GENERATOR, w)
      b1 == PMul(g_y, w)
      a2 == PAdd(PMul(GENERATOR, r2), PMul(g_x, d2))
      b2 == PAdd(PMul(g_y, r2), PMul(PSub(y, GENERATOR), d2))
      c == hash_to_scalar(PointToBytes(
             PAdd(PAdd(PAdd(PAdd(PAdd(g_x, y), a1), b1), a2), b2)))
      d1 == SSub(c, d2)
      r1 == SSub(w, SMul(x, d1))
  IN [r1 |-> ScalarToBytes(r1), r2 |-> ScalarToBytes(r2),
      d1 |-> ScalarToBytes(d1), d2 |-> ScalarToBytes(d2),
      x |-> PointToBytes(g_x), y |-> PointToBytes(y),
      a1 |-> PointToBytes(a1), b1 |-> PointToBytes(b1),
      a2 |-> PointToBytes(a2), b2 |-> PointToBytes(b2)]

\* keys.iter().position(|k| *k == g_x).unwrap(), as a 1-based index
\* variant: every key is taken to be the first of the list
Position_first(keys, g_x) == 1

\* keys.iter().position(..).unwrap(): the first index holding the key
Position(keys, g_x) ==
  CHOOSE i \in 1 .. Len(keys) :
    keys[i] = g_x /\ \A j \in 1 .. (i - 1) : keys[j] # g_x

RECURSIVE SumWhere_before(_, _, _, _, _)
\* variant: the keys before the position are summed on both sides
SumWhere_before(keys, lo, hi, position, before) ==
  IF lo > hi THEN IDENTITY
  ELSE PAdd(IF lo < position THEN keys[lo] ELSE IDENTITY,
            SumWhere_before(keys, lo + 1, hi, position, before))

RECURSIVE SumWhere(_, _, _, _, _)
\* sum of keys[j] for j in lo..hi on the given side of position
SumWhere(keys, lo, hi, position, before) ==
  IF lo > hi THEN IDENTITY
  ELSE PAdd(IF (before /\ lo < position) \/ (~before /\ lo > position)
              THEN keys[lo] ELSE IDENTITY,
            SumWhere(keys, lo + 1, hi, position, before))

\* variant: the voter in the last position is not treated apart
compute_reconstructed_key_nolast(keys, g_x) ==
  LET position == Position(keys, g_x)
      last == Len(keys)
  IN IF position = 1
       THEN PNeg(PAdd(keys[last], SumPoints(keys, 2, last - 1)))
     ELSE PSub(PAdd(keys[1], SumWhere(keys, 2, last - 1, position, TRUE)),
               PAdd(keys[last], SumWhere(keys, 2, last - 1, position, FALSE)))

\* indices are 1-based: the Rust loops over 1..len-1 visit 2..Len-1 here
compute_reconstructed_key(keys, g_x) ==
  LET position == Position(keys, g_x)
      last == Len(keys)
  IN IF position = 1
       THEN PNeg(PAdd(keys[last], SumPoints(keys, 2, last - 1)))
     ELSE LET before_points ==
                PAdd(keys[1], SumWhere(keys, 2, last - 1, position, TRUE))
              after_points ==
                PAdd(keys[last], SumWhere(keys, 2, last - 1, position, FALSE))
          IN IF position = last THEN before_points
             ELSE PSub(before_points, after_points)

commit_to_vote(x, g_y, g_v) == Sha256(PointToBytes(PAdd(PMul(g_y, x), g_v)))

\* ------------------------------------------------------------------- state
\* AccountAddress values; sender 0 stands for an Address::Contract sender
Accounts == 1 .. 4
Senders == 0 .. 4
\* the account holders that take part as voters; account 4 only ever calls
\* change_phase and result
Registrants == 1 .. 3
\* the registrant that may send again a key and proof already published, and
\* the one that may send a vote with a proof made for another vote
\* the senders of change_phase: a contract, a voter and a non-voter
PhaseCallers == {0, 2, 4}
Replayers == {3}
Cheaters == {2}

Phases == {"Registration", "Commit", "Vote", "Result", "Abort"}

VARIABLES
  config,          \* VotingState.config (VoteConfig)
  voting_phase,    \* VotingState.voting_phase
  voting_result,   \* VotingState.voting_result
  voters,          \* VotingState.voters: StateMap<AccountAddress, Voter>
  balance,         \* host.self_balance()
  now,             \* ctx.metadata().slot_time() of the next invocation
  sk,              \* each account holder's secret x (off-chain)
  paid,            \* total amount each account received by invoke_transfer
  refunded,        \* the accounts that received a deposit refund
  rewards,         \* total amount paid as reward to change_phase callers
  aborted_from,    \* the phase change_phase aborted, "none" before an abort
  last             \* the last successful invocation and its transfers

vars == << config, voting_phase, voting_result, voters, balance, now, sk,
           paid, refunded, rewards, aborted_from, last >>

\* iteration order of StateMap::iter(): increasing key order
RECURSIVE SortedAccounts(_)
SortedAccounts(S) ==
  IF S = {} THEN << >>
  ELSE LET m == CHOOSE a \in S : \A b \in S : a <= b
       IN << m >> \o SortedAccounts(S \ {m})

VoterOrder(vs) == SortedAccounts(DOMAIN vs)

RECURSIVE SumAmounts(_)
SumAmounts(ts) ==
  IF ts = << >> THEN 0 ELSE Head(ts).amount + SumAmounts(Tail(ts))

PaidTo(ts, a) ==
  SumAmounts(SelectSeq(ts, LAMBDA t : t.to = a))

\* ------------------------------------------------ Merkle authorization
\* the leaf stored for an authorized account
AccountLeaf(a) == << a >>

\* the tree whose root is config.merkle_root: the first n accounts, in order
MerkleLeaves(n) == [i \in 1 .. n |-> AccountLeaf(i)]

verify_merkle_proof(merkle_root, merkle_leaf_count, merkle_proof, sender) ==
  /\ merkle_proof.index \in 0 .. (merkle_leaf_count - 1)
  /\ merkle_root[merkle_proof.index + 1] = merkle_proof.leaf
  /\ merkle_proof.leaf = AccountLeaf(sender)

\* ----------------------------------------------------------- entry points
\* outcome of an invocation; an error leaves the state as it was
Outcome(err, vs, phase, result, transfers) ==
  [err |-> err, voters |-> vs, phase |-> phase, result |-> result,
   transfers |-> transfers]

Reject(err) == Outcome(err, voters, voting_phase, voting_result, << >>)

\* An invocation that fails after it has written to the state: the outcome
\* carries the error together with what the handler left behind.
Bail(err, vs, phase) == Outcome(err, vs, phase, voting_result, << >>)

\* The host's transaction model: what an invocation leaves behind is kept
\* only if it returned Ok; an error or a trap discards every write and
\* every transfer of the invocation.
HostKeeps_all(out) == out

HostKeeps(out) ==
  IF out.err = "Ok" THEN out ELSE Reject(out.err)

\* the comparison of setup's timeout checks
Later_orequal(timeout, earlier) == timeout >= earlier

Later(timeout, earlier) == timeout > earlier

\* an init that fails creates no instance
SetupError(err, vote_config) ==
  [err |-> err, config |-> vote_config, voting_phase |-> "NoInstance",
   voting_result |-> << -1, -1 >>, voters |-> << >>]

\* setup: init at the given slot time with the given config
setup(slot_time, vote_config) ==
  IF ~Later(vote_config.registration_timeout, slot_time)
    THEN SetupError("InvalidRegistrationTimeout", vote_config)
  ELSE IF ~Later(vote_config.commit_timeout,
                 vote_config.registration_timeout)
    THEN SetupError("InvalidPrecommitTimeout", vote_config)
  ELSE IF ~Later(vote_config.vote_timeout, vote_config.commit_timeout)
    THEN SetupError("InvalidVoteTimeout", vote_config)
  ELSE IF ~(vote_config.deposit >= 0)
    THEN SetupError("NegativeDeposit", vote_config)
  ELSE [err |-> "Ok", config |-> vote_config,
        voting_phase |-> "Registration",
        voting_result |-> << -1, -1 >>, voters |-> << >>]

\* variant: the test of register is repeated in every entry point
InPhase_copied(phase) == voting_phase = "Registration"

\* host.state().voting_phase is the phase of the entry point
InPhase(phase) == voting_phase = phase

\* variant: the slot time is not compared with the timeout
InTime_always(timeout) == TRUE

\* variant: the timeout itself is already too late
InTime_strict(timeout) == now < timeout

\* ctx.metadata().slot_time() <= timeout
InTime(timeout) == now <= timeout

\* the attached amount is the configured deposit
\* variant: register takes whatever amount is sent
DepositAccepted_any(deposit) == TRUE

DepositAccepted(deposit) == config.deposit = deposit

\* variant: three records are taken to be all of them
AllRegistered_three(vs) == Cardinality(DOMAIN vs) > 2

\* as many records as the tree has leaves
AllRegistered(vs) == Cardinality(DOMAIN vs) = config.merkle_leaf_count

\* variant: the verdict of the verification is not looked at (is_ok() in
\* place of Ok(true))
Authorized_isok(sender, register_message) == TRUE

\* the Merkle proof of the message verifies for the sender: Ok(true)
Authorized(sender, register_message) ==
  verify_merkle_proof(config.merkle_root, config.merkle_leaf_count,
                      register_message.merkle_proof, sender)

\* variant: the lookup of the sender's record is not acted upon
HasRecord_never(sender) == FALSE

\* voters.get(&sender_address) is Some(_)
HasRecord(sender) == sender \in DOMAIN voters

\* The voters map once the empty record of the sender is inserted, before
\* the voting key and its proof are looked at.
Inserted_alone(sender) == [a \in {sender} |-> DefaultVoter]

Inserted(sender) ==
  [a \in DOMAIN voters \cup {sender} |->
     IF a = sender THEN DefaultVoter ELSE voters[a]]

register(sender, deposit, register_message) ==
  IF sender \notin Accounts THEN Reject("ContractSender")
  ELSE IF ~InPhase("Registration") THEN Reject("NotRegistrationPhase")
  ELSE IF ~DepositAccepted(deposit) THEN Reject("WrongDeposit")
  ELSE IF ~InTime(config.registration_timeout) THEN Reject("PhaseEnded")
  ELSE IF ~Authorized(sender, register_message)
    THEN Reject("UnauthorizedVoter")
  ELSE IF HasRecord(sender) THEN Reject("AlreadyRegistered")
  ELSE IF from_sec1_bytes(register_message.voting_key) = None
    THEN Bail("InvalidVotingKey", Inserted(sender), voting_phase)
  ELSE IF verify_schnorr_traps(from_sec1_bytes(register_message.voting_key),
                               register_message.voting_key_zkp)
    THEN Bail("Trap", Inserted(sender), voting_phase)
  ELSE IF ~verify_schnorr_zkp(from_sec1_bytes(register_message.voting_key),
                              register_message.voting_key_zkp)
    THEN Bail("InvalidZKP", Inserted(sender), voting_phase)
  ELSE
    LET voter == [DefaultVoter EXCEPT
                    !.voting_key = register_message.voting_key,
                    !.voting_key_zkp = register_message.voting_key_zkp]
        vs == [Inserted(sender) EXCEPT ![sender] = voter]
    IN Outcome("Ok", vs,
               IF AllRegistered(vs) THEN "Commit" ELSE voting_phase,
               voting_result, << >>)

\* the voting keys in iteration order; None where convert_vec_to_point traps
VotingKeys(vs) ==
  [i \in 1 .. Len(VoterOrder(vs)) |->
     from_sec1_bytes(vs[VoterOrder(vs)[i]].voting_key)]

\* variant: one committed voter is enough
AllCommitted_any(vs) ==
  \E a \in DOMAIN vs :
    vs[a].commitment # EmptyVec /\ vs[a].reconstructed_key # EmptyVec

AllCommitted(vs) ==
  \A a \in DOMAIN vs :
    vs[a].commitment # EmptyVec /\ vs[a].reconstructed_key # EmptyVec

\* variant: one vote is enough
AllVoted_any(vs) == \E a \in DOMAIN vs : vs[a].vote # EmptyVec

AllVoted(vs) == \A a \in DOMAIN vs : vs[a].vote # EmptyVec

\* variant: the record is written anew from the message alone
CommitStored_fresh(sender, commitment_message) ==
  [voters EXCEPT
     ![sender] = [DefaultVoter EXCEPT
                    !.reconstructed_key = commitment_message.reconstructed_key,
                    !.commitment = commitment_message.commitment]]

\* the voters map after commit has saved the two fields in the sender's record
CommitStored(sender, commitment_message) ==
  [voters EXCEPT
     ![sender].reconstructed_key = commitment_message.reconstructed_key,
     ![sender].commitment = commitment_message.commitment]

commit(sender, commitment_message) ==
  IF sender \notin Accounts THEN Reject("ContractSender")
  ELSE IF ~InPhase("Commit") THEN Reject("NotCommitPhase")
  ELSE IF sender \notin DOMAIN voters THEN Reject("UnauthorizedVoter")
  ELSE IF ~InTime(config.commit_timeout) THEN Reject("PhaseEnded")
  ELSE IF commitment_message.commitment = EmptyVec
    THEN Reject("InvalidCommitMessage")
  ELSE IF commitment_message.reconstructed_key = EmptyVec
    THEN Reject("InvalidCommitMessage")
  ELSE
    LET keys == VotingKeys(voters)
    IN IF \E i \in 1 .. Len(keys) : keys[i] = None THEN Reject("Trap")
       ELSE IF commitment_message.reconstructed_key #
                 PointToBytes(compute_reconstructed_key(
                   keys, from_sec1_bytes(voters[sender].voting_key)))
         THEN Reject("InvalidCommitMessage")
       ELSE
         LET vs == CommitStored(sender, commitment_message)
         IN Outcome("Ok", vs,
                    IF AllCommitted(vs) THEN "Vote" ELSE voting_phase,
                    voting_result, << >>)

\* invoke_transfer fails (AmountTooLarge) when the balance does not cover it;
\* amounts are unsigned, so the transfers of one invocation succeed one after
\* the other exactly when their sum is covered
TransfersCovered(transfers, funds) == SumAmounts(transfers) <= funds

Transfer(to, amount, why) == [to |-> to, amount |-> amount, why |-> why]

\* variant: vote keeps the deposit
VoteRefund_none(sender) == << >>

\* the refund vote issues to its sender
VoteRefund(sender) == << Transfer(sender, config.deposit, "refund") >>

\* variant: the stored vote is not looked at
HasVoted_never(sender) == FALSE

\* the sender's record holds a vote
HasVoted(sender) == voters[sender].vote # EmptyVec

vote(sender, vote_message) ==
  IF sender \notin Accounts THEN Reject("ContractSender")
  ELSE IF ~InPhase("Vote") THEN Reject("NotVotePhase")
  ELSE IF sender \notin DOMAIN voters THEN Reject("UnauthorizedVoter")
  ELSE IF ~InTime(config.vote_timeout) THEN Reject("PhaseEnded")
  ELSE IF HasVoted(sender) THEN Reject("AlreadyVoted")
  ELSE IF from_sec1_bytes(voters[sender].reconstructed_key) = None
    THEN Reject("Trap")
  ELSE IF verify_one_in_two_traps(vote_message.vote_zkp,
            from_sec1_bytes(voters[sender].reconstructed_key))
    THEN Reject("Trap")
  ELSE IF ~verify_one_in_two_zkp(vote_message.vote_zkp,
             from_sec1_bytes(voters[sender].reconstructed_key))
    THEN Reject("InvalidZKP")
  ELSE IF from_sec1_bytes(vote_message.vote) = None THEN Reject("Trap")
  ELSE IF ~check_commitment(from_sec1_bytes(vote_message.vote),
                            voters[sender].commitment)
    THEN Reject("VoteCommitmentMismatch")
  ELSE
    LET vs == [voters EXCEPT ![sender].vote = vote_message.vote,
                             ![sender].vote_zkp = vote_message.vote_zkp]
        transfers == VoteRefund(sender)
        phase == IF AllVoted(vs) THEN "Result" ELSE voting_phase
    IN IF ~TransfersCovered(transfers, balance)
         THEN Bail("DoTransfer", vs, phase)
       ELSE Outcome("Ok", vs, phase, voting_result, transfers)

\* variant: the yes votes are not subtracted
NoVotes_all(votes, yes_votes) == Len(votes)

NoVotes(votes, yes_votes) == Len(votes) - yes_votes

result(sender) ==
  IF ~InPhase("Result") THEN Reject("NotResultPhase")
  ELSE
    LET order == VoterOrder(voters)
        votes == [i \in 1 .. Len(order) |->
                    from_sec1_bytes(voters[order[i]].vote)]
    IN IF Len(votes) = 0 \/ \E i \in 1 .. Len(votes) : votes[i] = None
         THEN Reject("Trap")
       ELSE LET yes_votes == brute_force_tally(votes)
                no_votes == NoVotes(votes, yes_votes)
            IN Outcome("Ok", voters, voting_phase,
                       << yes_votes, no_votes >>, << >>)

\* the voters missing the field the phase requires
StallingAccounts(vs, phase) ==
  SelectSeq(VoterOrder(vs), LAMBDA a :
    CASE phase = "Registration" -> vs[a].voting_key = EmptyVec
      [] phase = "Commit" -> vs[a].reconstructed_key = EmptyVec
      [] OTHER -> vs[a].vote = EmptyVec)

\* variant: the Commit arm repeats the test of the Registration arm
HonestAccounts_copied(vs, phase) ==
  SelectSeq(VoterOrder(vs), LAMBDA a :
    CASE phase = "Registration" -> vs[a].voting_key # EmptyVec
      [] phase = "Commit" -> vs[a].voting_key # EmptyVec
      [] OTHER -> vs[a].vote # EmptyVec)

HonestAccounts(vs, phase) ==
  SelectSeq(VoterOrder(vs), LAMBDA a :
    CASE phase = "Registration" -> vs[a].voting_key # EmptyVec
      [] phase = "Commit" -> vs[a].reconstructed_key # EmptyVec
      [] OTHER -> vs[a].vote # EmptyVec)

SeqContains(seq, a) == \E i \in 1 .. Len(seq) : seq[i] = a

\* variant: the reward does not ask whether anybody stalled
RewardDue_always(sender, vs, phase) ==
  ~SeqContains(StallingAccounts(vs, phase), sender)

\* variant: the reward does not ask whether the caller stalled
RewardDue_anyone(sender, vs, phase) ==
  Cardinality(DOMAIN vs) - Len(HonestAccounts(vs, phase)) > 0

\* the caller is rewarded if not stalling and some voter is not honest
RewardDue(sender, vs, phase) ==
  /\ ~SeqContains(StallingAccounts(vs, phase), sender)
  /\ Cardinality(DOMAIN vs) - Len(HonestAccounts(vs, phase)) > 0

\* variant: the honest voters are refunded in every aborted phase
RefundedAccounts_always(vs, phase) == HonestAccounts(vs, phase)

\* the honest voters are refunded unless the aborted phase is Vote
RefundedAccounts(vs, phase) ==
  IF phase # "Vote" THEN HonestAccounts(vs, phase) ELSE << >>

\* the transfers refund_deposits issues, in order (phase is Registration,
\* Commit or Vote at every call site)
refund_deposits(sender, vs, phase, deposit) ==
  LET reward ==
        IF RewardDue(sender, vs, phase)
          THEN << Transfer(sender, deposit, "reward") >> ELSE << >>
      refunds ==
        [i \in 1 .. Len(RefundedAccounts(vs, phase)) |->
           Transfer(RefundedAccounts(vs, phase)[i], deposit, "refund")]
  IN reward \o refunds

\* an abort arm of change_phase: refund, then move to Abort
AbortOutcome(sender) ==
  LET transfers ==
        refund_deposits(sender, voters, voting_phase, config.deposit)
  IN IF ~TransfersCovered(transfers, balance) THEN Reject("TransferRefund")
     ELSE Outcome("Ok", voters, "Abort", voting_result, transfers)

RegisteredKeys(vs) ==
  Cardinality({a \in DOMAIN vs : vs[a].voting_key # EmptyVec})

Unchanged == Outcome("Ok", voters, voting_phase, voting_result, << >>)
MoveTo(phase) == Outcome("Ok", voters, phase, voting_result, << >>)

\* variant: the registration timeout moves straight on to Vote
ChangeFromRegistration_skip(sender) ==
  IF now > config.registration_timeout /\ RegisteredKeys(voters) > 2
    THEN MoveTo("Vote")
  ELSE IF now > config.registration_timeout THEN AbortOutcome(sender)
  ELSE Unchanged

\* variant: three registered keys end the registration before its timeout
ChangeFromRegistration_count(sender) ==
  IF RegisteredKeys(voters) > 2 THEN MoveTo("Commit")
  ELSE IF now > config.registration_timeout THEN AbortOutcome(sender)
  ELSE Unchanged

\* variant: two registered keys are enough to go on
ChangeFromRegistration_two(sender) ==
  IF now > config.registration_timeout /\ RegisteredKeys(voters) > 1
    THEN MoveTo("Commit")
  ELSE IF now > config.registration_timeout THEN AbortOutcome(sender)
  ELSE Unchanged

ChangeFromRegistration(sender) ==
  IF now > config.registration_timeout /\ RegisteredKeys(voters) > 2
    THEN MoveTo("Commit")
  ELSE IF now > config.registration_timeout THEN AbortOutcome(sender)
  ELSE Unchanged

\* variant: the Commit phase is over at the timeout, not after it
ChangeFromCommit_early(sender) ==
  IF AllCommitted(voters) THEN MoveTo("Vote")
  ELSE IF now >= config.commit_timeout THEN AbortOutcome(sender)
  ELSE Unchanged

ChangeFromCommit(sender) ==
  IF AllCommitted(voters) THEN MoveTo("Vote")
  ELSE IF now > config.commit_timeout THEN AbortOutcome(sender)
  ELSE Unchanged

\* variant: an unfinished Vote phase is never aborted
ChangeFromVote_never(sender) ==
  IF AllVoted(voters) THEN MoveTo("Result") ELSE Unchanged

ChangeFromVote(sender) ==
  IF AllVoted(voters) THEN MoveTo("Result")
  ELSE IF now > config.vote_timeout THEN AbortOutcome(sender)
  ELSE Unchanged

\* variant: a finished election is treated as one still in the Vote phase
change_phase_again(sender) ==
  IF sender \notin Accounts THEN Reject("ContractSender")
  ELSE CASE voting_phase = "Registration" -> ChangeFromRegistration(sender)
         [] voting_phase = "Commit" -> ChangeFromCommit(sender)
         [] OTHER -> ChangeFromVote(sender)

change_phase(sender) ==
  IF sender \notin Accounts THEN Reject("ContractSender")
  ELSE CASE voting_phase = "Registration" -> ChangeFromRegistration(sender)
         [] voting_phase = "Commit" -> ChangeFromCommit(sender)
         [] voting_phase = "Vote" -> ChangeFromVote(sender)
         [] OTHER -> Unchanged

\* ------------------------------------------------------------------ inputs
\* configurations setup accepts at slot time 0
LeafCounts == {2, 3, 4}
Deposits == {2}
Configs ==
  {[merkle_root |-> MerkleLeaves(n), merkle_leaf_count |-> n,
    voting_question |-> "q", deposit |-> d,
    registration_timeout |-> 1, commit_timeout |-> 2, vote_timeout |-> 3] :
     n \in LeafCounts, d \in Deposits}

\* the secrets the account holders drew with create_votingkey_pair
SecretAssignments == {<< 2, 4, 5, 7 >>}
\* the randomness the provers draw: w for Schnorr, (w, r, d) for 1-of-2
SchnorrNonces == {2}
OneInTwoRandomness == {<< 3, 3, 4 >>}

VotingKeyOf(a) == PMul(GENERATOR, sk[a])

\* create_schnorr_zkp panics (unwrap in hash_to_scalar) on such a nonce
SchnorrProverPanics(g_x, w) ==
  hash_to_scalar(PointToBytes(
    PAdd(PAdd(GENERATOR, PMul(GENERATOR, w)), g_x))) = None

\* the sender's own inclusion proof, and the one of the next account
MerkleProofs(a) ==
  {[leaf |-> AccountLeaf(b), index |-> b - 1] : b \in {a, (a % 4) + 1}}

OwnMerkleProof(a) == [leaf |-> AccountLeaf(a), index |-> a - 1]

HonestKeyAndProofs(a) ==
  {[voting_key |-> PointToBytes(VotingKeyOf(a)),
    voting_key_zkp |-> create_schnorr_zkp(VotingKeyOf(a), sk[a], w)] :
      w \in {n \in SchnorrNonces : ~SchnorrProverPanics(VotingKeyOf(a), n)}}

\* the key and proof another voter has published, sent again
ReplayedKeyAndProofs(a) ==
  {[voting_key |-> voters[b].voting_key,
    voting_key_zkp |-> voters[b].voting_key_zkp] : b \in DOMAIN voters}

BadKeyAndProofs(a) ==
  {[voting_key |-> PointToBytes(IDENTITY),
    voting_key_zkp |-> DefaultSchnorr],
   [voting_key |-> PointToBytes(VotingKeyOf(a)),
    voting_key_zkp |-> DefaultSchnorr],
   [voting_key |-> PointToBytes(VotingKeyOf(a)),
    voting_key_zkp |-> [g_w |-> PointToBytes(GENERATOR),
                        r |-> ScalarToBytes(1)]]}

RegisterMessages(a) ==
  {[voting_key |-> k.voting_key, voting_key_zkp |-> k.voting_key_zkp,
    merkle_proof |-> OwnMerkleProof(a)] :
      k \in HonestKeyAndProofs(a) \cup BadKeyAndProofs(a)
              \cup (IF a \in Replayers THEN ReplayedKeyAndProofs(a) ELSE {})}
  \cup {[voting_key |-> k.voting_key, voting_key_zkp |-> k.voting_key_zkp,
         merkle_proof |-> m] :
          k \in HonestKeyAndProofs(a), m \in MerkleProofs(a)}

\* the key a registered voter derives off-chain from the published keys
DerivedKey(a) ==
  compute_reconstructed_key(VotingKeys(voters),
                            from_sec1_bytes(voters[a].voting_key))

CommitMessages(a) ==
  IF a \notin DOMAIN voters
    THEN {[reconstructed_key |-> PointToBytes(GENERATOR),
           commitment |-> Sha256(PointToBytes(GENERATOR))]}
  ELSE {[reconstructed_key |-> k, commitment |-> c] :
          k \in {PointToBytes(DerivedKey(a)), UncompressedBytes(DerivedKey(a)),
                 PointToBytes(PAdd(DerivedKey(a), GENERATOR)), EmptyVec},
          c \in {commit_to_vote(sk[a], DerivedKey(a), GENERATOR),
                 commit_to_vote(sk[a], DerivedKey(a), IDENTITY), EmptyVec}
                \cup (IF a \in Cheaters
                        THEN {commit_to_vote(sk[a], DerivedKey(a),
                                             PMul(GENERATOR, 2))}
                      ELSE {})}

YesVote(a) ==
  PAdd(PMul(from_sec1_bytes(voters[a].reconstructed_key), sk[a]), GENERATOR)
NoVote(a) == PMul(from_sec1_bytes(voters[a].reconstructed_key), sk[a])

\* create_one_in_two_zkp_yes and _no panic (unwrap in hash_to_scalar) when
\* the digest of the six points of the proof is not below the group order
OneInTwoProverPanics(zkp) ==
  hash_to_scalar(PointToBytes(
    PAdd(PAdd(PAdd(PAdd(PAdd(zkp.x[1], zkp.y[1]), zkp.a1[1]), zkp.b1[1]),
              zkp.a2[1]), zkp.b2[1]))) = None

YesProofsWith(a, randomness) ==
  {z \in {create_one_in_two_zkp_yes(VotingKeyOf(a),
            from_sec1_bytes(voters[a].reconstructed_key), sk[a],
            t[1], t[2], t[3]) : t \in randomness} :
     ~OneInTwoProverPanics(z)}
NoProofsWith(a, randomness) ==
  {z \in {create_one_in_two_zkp_no(VotingKeyOf(a),
            from_sec1_bytes(voters[a].reconstructed_key), sk[a],
            t[1], t[2], t[3]) : t \in randomness} :
     ~OneInTwoProverPanics(z)}

YesProofs(a) == YesProofsWith(a, OneInTwoRandomness)
NoProofs(a) == NoProofsWith(a, OneInTwoRandomness)

\* a vote with the proof made for it
HonestVoteMessages(a) ==
  {[vote |-> PointToBytes(YesVote(a)), vote_zkp |-> z] : z \in YesProofs(a)}
  \cup {[vote |-> PointToBytes(NoVote(a)), vote_zkp |-> z] : z \in NoProofs(a)}

\* a vote sent with the proof made for the other vote, or in its uncompressed
\* encoding
\* the point [x]H + [2]G, which counts as two yes votes in the tally
DoubleVote(a) ==
  PAdd(PMul(from_sec1_bytes(voters[a].reconstructed_key), sk[a]),
       PMul(GENERATOR, 2))

\* a double vote sent with the proof made for a yes vote
DoubleVoteMessages(a) ==
  {[vote |-> PointToBytes(DoubleVote(a)), vote_zkp |-> z] : z \in YesProofs(a)}

MismatchedVoteMessages(a) ==
  {[vote |-> PointToBytes(YesVote(a)), vote_zkp |-> z] : z \in NoProofs(a)}
  \cup {[vote |-> PointToBytes(NoVote(a)), vote_zkp |-> z] : z \in YesProofs(a)}
  \cup {[vote |-> UncompressedBytes(YesVote(a)), vote_zkp |-> z] :
           z \in YesProofs(a)}

VoteMessages(a) ==
  IF a \notin DOMAIN voters
       \/ from_sec1_bytes(voters[a].reconstructed_key) = None
    THEN {[vote |-> PointToBytes(GENERATOR), vote_zkp |-> DefaultOneInTwo]}
  ELSE HonestVoteMessages(a)
       \cup (IF a \in Cheaters
             THEN MismatchedVoteMessages(a) \cup DoubleVoteMessages(a)
             ELSE {})
       \cup {[vote |-> PointToBytes(YesVote(a)), vote_zkp |-> DefaultOneInTwo]}

\* ----------------------------------------------------------------- actions
\* a successful invocation commits its state changes and transfers; a failed
\* one is rolled back by the host and leaves everything as it was
Invoke(op, sender, amount, out) ==
  \E kept \in {HostKeeps(out)} : \E ok \in {out.err = "Ok"} :
    /\ voters' = kept.voters
    /\ voting_phase' = kept.phase
    /\ voting_result' = kept.result
    /\ balance' = balance + (IF ok THEN amount ELSE 0)
                     - SumAmounts(kept.transfers)
    /\ paid' = [a \in Accounts |-> paid[a] + PaidTo(kept.transfers, a)]
    /\ refunded' = refunded \cup
         {kept.transfers[i].to : i \in {j \in 1 .. Len(kept.transfers) :
                                         kept.transfers[j].why = "refund"}}
    /\ rewards' = rewards + SumAmounts(SelectSeq(kept.transfers,
                               LAMBDA t : t.why = "reward"))
    /\ aborted_from' = IF kept.phase = "Abort" /\ voting_phase # "Abort"
                         THEN voting_phase ELSE aborted_from
    /\ last' = IF ok
                 THEN [op |-> op, sender |-> sender,
                       transfers |-> out.transfers, from |-> voting_phase]
                 ELSE last
    /\ UNCHANGED << config, now, sk >>

Register ==
  \/ \E sender \in Registrants :
       \E m \in RegisterMessages(sender) :
         Invoke("register", sender, config.deposit,
                register(sender, config.deposit, m))
  \/ \E sender \in {0} \cup Registrants :
       \E deposit \in {config.deposit - 1, config.deposit, config.deposit + 1} :
         \E m \in HonestKeyAndProofs(IF sender = 0 THEN 1 ELSE sender) :
           Invoke("register", sender, deposit,
                  register(sender, deposit,
                           [voting_key |-> m.voting_key,
                            voting_key_zkp |-> m.voting_key_zkp,
                            merkle_proof |-> OwnMerkleProof(sender)]))

Commit ==
  \E sender \in {0} \cup Registrants :
    \E m \in CommitMessages(sender) :
      Invoke("commit", sender, 0, commit(sender, m))

Vote ==
  \E sender \in {0} \cup Registrants :
    \E m \in VoteMessages(sender) :
      Invoke("vote", sender, 0, vote(sender, m))

Result ==
  \E sender \in {0, 4} : Invoke("result", sender, 0, result(sender))

ChangePhase ==
  \E sender \in PhaseCallers :
    Invoke("change_phase", sender, 0, change_phase(sender))

\* the slot time of later blocks is larger
Tick ==
  /\ now < MaxTime
  /\ now' = now + 1
  /\ UNCHANGED << config, voting_phase, voting_result, voters, balance, sk,
                  paid, refunded, rewards, aborted_from, last >>

Init ==
  /\ \E c \in Configs :
       /\ setup(0, c).err = "Ok"
       /\ config = setup(0, c).config
       /\ voting_phase = setup(0, c).voting_phase
       /\ voting_result = setup(0, c).voting_result
       /\ voters = setup(0, c).voters
  /\ balance = 0
  /\ now = 0
  /\ sk \in SecretAssignments
  /\ paid = [a \in Accounts |-> 0]
  /\ refunded = {}
  /\ rewards = 0
  /\ aborted_from = "none"
  /\ last = [op |-> "setup", sender |-> 0, transfers |-> << >>,
             from |-> "Registration"]

Next == Register \/ Commit \/ Vote \/ Result \/ ChangePhase \/ Tick

Spec == Init /\ [][Next]_vars

\* ------------------------------------------------- runs of honest voters
\* the eligible accounts send the messages the off-chain functions make, each
\* in the phase the message belongs to
HonestRegister ==
  \E sender \in Registrants :
    /\ voting_phase = "Registration"
    /\ \E m \in HonestKeyAndProofs(sender) :
      Invoke("register", sender, config.deposit,
             register(sender, config.deposit,
                      [voting_key |-> m.voting_key,
                       voting_key_zkp |-> m.voting_key_zkp,
                       merkle_proof |-> OwnMerkleProof(sender)]))

HonestCommit ==
  \E sender \in Registrants \cap DOMAIN voters :
    /\ voting_phase = "Commit"
    /\ \E g_v \in {IDENTITY, GENERATOR} :
         Invoke("commit", sender, 0,
                commit(sender,
                       [reconstructed_key |-> PointToBytes(DerivedKey(sender)),
                        commitment |->
                          commit_to_vote(sk[sender], DerivedKey(sender), g_v)]))

HonestVote ==
  \E sender \in Registrants \cap DOMAIN voters :
    /\ voting_phase = "Vote"
    /\ from_sec1_bytes(voters[sender].reconstructed_key) # None
    /\ \E m \in HonestVoteMessages(sender) :
         Invoke("vote", sender, 0, vote(sender, m))

LiveNext ==
  HonestRegister \/ HonestCommit \/ HonestVote \/ Result \/ ChangePhase
    \/ Tick

\* the honest runs of an election with three eligible accounts
OrderInit == Init /\ config.merkle_leaf_count = 3

OrderSpec == OrderInit /\ [][LiveNext]_vars

\* some account keeps invoking change_phase: a change_phase that would
\* change the state is not put off forever
LiveSpec == Init /\ [][LiveNext]_vars /\ WF_vars(ChangePhase)

\* --------------------------------------------------------- the init call
\* configurations an owner may hand to setup, valid or not
TimeoutValues == 0 .. MaxTime
CandidateConfigs ==
  {[merkle_root |-> MerkleLeaves(n), merkle_leaf_count |-> n,
    voting_question |-> "q", deposit |-> d,
    registration_timeout |-> t_reg, commit_timeout |-> t_commit,
    vote_timeout |-> t_vote] :
     n \in LeafCounts, d \in {0} \cup Deposits,
     t_reg \in TimeoutValues, t_commit \in TimeoutValues,
     t_vote \in TimeoutValues}

\* before the init call: config holds the parameter of the call, now the
\* slot time of its block
SetupInit ==
  /\ config \in CandidateConfigs
  /\ voting_phase = "Uninitialized"
  /\ voting_result = << 0, 0 >>
  /\ voters = << >>
  /\ balance = 0
  /\ now \in 0 .. MaxTime
  /\ sk \in SecretAssignments
  /\ paid = [a \in Accounts |-> 0]
  /\ refunded = {}
  /\ rewards = 0
  /\ aborted_from = "none"
  /\ last = [op |-> "none", sender |-> 0, transfers |-> << >>,
             from |-> "Uninitialized"]

Setup ==
  /\ voting_phase = "Uninitialized"
  /\ voting_phase' = setup(now, config).voting_phase
  /\ voting_result' = setup(now, config).voting_result
  /\ voters' = setup(now, config).voters
  /\ config' = setup(now, config).config
  /\ last' = [op |-> "setup", sender |-> 0, transfers |-> << >>,
              from |-> "Uninitialized"]
  /\ UNCHANGED << balance, now, sk, paid, refunded, rewards, aborted_from >>

SetupNext == Setup

SetupSpec == SetupInit /\ [][SetupNext]_vars

\* ------------------------------------------- Schnorr prover and verifier
\* Scalar::random draws the secret of create_votingkey_pair and the nonce
\* of create_schnorr_zkp from all scalars.
\* The contract after setup; account 1 holds any secret
SchnorrInit ==
  /\ \E c \in Configs :
       /\ setup(0, c).err = "Ok"
       /\ config = setup(0, c).config
       /\ voting_phase = setup(0, c).voting_phase
       /\ voting_result = setup(0, c).voting_result
       /\ voters = setup(0, c).voters
  /\ balance = 0
  /\ now = 0
  /\ sk \in {<< x, 4, 5, 7 >> : x \in Scalars}
  /\ paid = [a \in Accounts |-> 0]
  /\ refunded = {}
  /\ rewards = 0
  /\ aborted_from = "none"
  /\ last = [op |-> "setup", sender |-> 0, transfers |-> << >>,
             from |-> "Registration"]

\* account 1 proves knowledge of its secret with any nonce and registers
\* the key with the proof: register runs verify_schnorr_zkp on the pair
SchnorrRegister ==
  \E w \in Scalars :
    /\ ~SchnorrProverPanics(VotingKeyOf(1), w)
    /\ Invoke("register", 1, config.deposit,
              register(1, config.deposit,
                       [voting_key |-> PointToBytes(VotingKeyOf(1)),
                        voting_key_zkp |->
                          create_schnorr_zkp(VotingKeyOf(1), sk[1], w),
                        merkle_proof |-> OwnMerkleProof(1)]))

SchnorrNext == SchnorrRegister

SchnorrSpec == SchnorrInit /\ [][SchnorrNext]_vars

\* --------------------------------------- one-in-two prover and verifier
\* the contract after setup for two eligible accounts; accounts 1 and 2
\* hold any two different secrets
OneInTwoInit ==
  /\ \E c \in Configs :
       /\ c.merkle_leaf_count = 2
       /\ setup(0, c).err = "Ok"
       /\ config = setup(0, c).config
       /\ voting_phase = setup(0, c).voting_phase
       /\ voting_result = setup(0, c).voting_result
       /\ voters = setup(0, c).voters
  /\ balance = 0
  /\ now = 0
  /\ sk \in {<< x1, x2, 5, 7 >> : x1 \in Scalars, x2 \in Scalars}
  /\ sk[1] # sk[2]
  /\ paid = [a \in Accounts |-> 0]
  /\ refunded = {}
  /\ rewards = 0
  /\ aborted_from = "none"
  /\ last = [op |-> "setup", sender |-> 0, transfers |-> << >>,
             from |-> "Registration"]

\* the accounts register, commit and vote; each vote runs
\* verify_one_in_two_zkp on a proof of the yes or of the no prover
OneInTwoNext == Register \/ Commit \/ Vote

OneInTwoSpec == OneInTwoInit /\ [][OneInTwoNext]_vars

\* --------------------------------------------- reconstructed keys
\* the contract after setup for n eligible accounts, each holding any
\* secret: the voting keys [sk[1]]G .. [sk[n]]G are any list of n points
KeyInit ==
  /\ \E c \in Configs :
       /\ setup(0, c).err = "Ok"
       /\ config = setup(0, c).config
       /\ voting_phase = setup(0, c).voting_phase
       /\ voting_result = setup(0, c).voting_result
       /\ voters = setup(0, c).voters
  /\ balance = 0
  /\ now = 0
  /\ sk \in {<< x1, x2, x3, x4 >> : x1 \in Scalars, x2 \in Scalars,
                                    x3 \in Scalars, x4 \in Scalars}
  /\ config.merkle_leaf_count < 4 => sk[4] = 7
  /\ config.merkle_leaf_count < 3 => sk[3] = 5
  /\ paid = [a \in Accounts |-> 0]
  /\ refunded = {}
  /\ rewards = 0
  /\ aborted_from = "none"
  /\ last = [op |-> "setup", sender |-> 0, transfers |-> << >>,
             from |-> "Registration"]

\* the list of voting keys of the n accounts, in account order
KeyList ==
  [i \in 1 .. config.merkle_leaf_count |-> VotingKeyOf(i)]

\* every account derives its reconstructed key from the list; voters holds
\* what each account has off-chain, its voting key and the derived key
DeriveKeys ==
  /\ voters = << >>
  /\ voters' = [a \in 1 .. config.merkle_leaf_count |->
                  [DefaultVoter EXCEPT
                     !.voting_key = PointToBytes(VotingKeyOf(a)),
                     !.reconstructed_key =
                       PointToBytes(compute_reconstructed_key(
                                      KeyList, VotingKeyOf(a)))]]
  /\ last' = [op |-> "compute_reconstructed_key", sender |-> 0,
              transfers |-> << >>, from |-> voting_phase]
  /\ UNCHANGED << config, voting_phase, voting_result, balance, now, sk,
                  paid, refunded, rewards, aborted_from >>

KeyNext == DeriveKeys

KeySpec == KeyInit /\ [][KeyNext]_vars

\* ------------------------------------------------------------------ claims
PhaseEdges ==
  {<< "Registration", "Commit" >>, << "Commit", "Vote" >>,
   << "Vote", "Result" >>, << "Registration", "Abort" >>,
   << "Commit", "Abort" >>, << "Vote", "Abort" >>}

\* C1: every step that changes the phase follows Registration->Commit,
\* Commit->Vote, Vote->Result or leads from Registration/Commit/Vote to Abort;
\* in particular no step leaves Result or Abort, goes back or skips a phase
C1_PhaseTransitions ==
  [][voting_phase' # voting_phase
       => << voting_phase, voting_phase' >> \in PhaseEdges]_vars

\* every phase edge has been taken on the way: an abort out of the Vote phase
C1_Witness ==
  /\ voting_phase = "Abort"
  /\ aborted_from = "Vote"
  /\ last.op = "change_phase"

Tally == voting_result[1] + voting_result[2]

\* C2 as stated: the tally is (-1, -1) while the phase is not Result, and
\* whenever the phase is Result yes + no is the number of voter records
C2_TallyAsStated ==
  /\ voting_phase # "Result" => voting_result = << -1, -1 >>
  /\ voting_phase = "Result" => Tally = Cardinality(DOMAIN voters)

\* C2 amended: the tally is (-1, -1) while the phase is not Result and stays
\* so in Result until result() has run; any other tally is held in phase
\* Result and has yes + no equal to the number of voter records
C2_TallyAmended ==
  /\ voting_phase # "Result" => voting_result = << -1, -1 >>
  /\ voting_result # << -1, -1 >> => Tally = Cardinality(DOMAIN voters)

C2_Witness ==
  /\ voting_phase = "Result"
  /\ last.op = "result"
  /\ voting_result # << -1, -1 >>
  /\ Cardinality(DOMAIN voters) = 3

\* H_i of the key list: the keys before position i minus the keys after it
ReconstructedAt(keys, i) ==
  PSub(SumPoints(keys, 1, i - 1), SumPoints(keys, i + 1, Len(keys)))

\* the secret of a voting key: x with [x]G = X
SecretOfKey(g_x) == CHOOSE x \in Scalars : PMul(GENERATOR, x) = g_x

\* the voter at position i has stored [x_i]H_i + [v]G
StoredVoteIs(i, v) ==
  LET keys == VotingKeys(voters)
      a == VoterOrder(voters)[i]
  IN from_sec1_bytes(voters[a].vote) =
       PAdd(PMul(ReconstructedAt(keys, i), SecretOfKey(keys[i])),
            PMul(GENERATOR, v))

WellFormedVotes ==
  \A i \in 1 .. Len(VoterOrder(voters)) : StoredVoteIs(i, 0) \/ StoredVoteIs(i, 1)

YesCount ==
  Cardinality({i \in 1 .. Len(VoterOrder(voters)) : StoredVoteIs(i, 1)})

\* C3: once result() has run on votes Y_i = [x_i]H_i + [v_i]G, v_i in {0, 1},
\* the stored tally is (sum of v_i, N - sum of v_i)
C3_TallyCorrect ==
  (voting_phase = "Result" /\ voting_result # << -1, -1 >> /\ WellFormedVotes)
    => voting_result = << YesCount, Cardinality(DOMAIN voters) - YesCount >>

\* three yes votes give (3, 0)
C3_Witness ==
  /\ voting_phase = "Result"
  /\ WellFormedVotes
  /\ YesCount = 3
  /\ voting_result = << 3, 0 >>

\* C4: the balance is never negative, no vote and no change_phase the state
\* admits fails on a transfer the balance does not cover, and once the phase
\* is Result with every voter having voted the balance is zero
C4_EscrowCovers ==
  /\ balance >= 0
  /\ \A sender \in Accounts : change_phase(sender).err # "TransferRefund"
  /\ \A sender \in Registrants : \A m \in VoteMessages(sender) :
       vote(sender, m).err # "DoTransfer"
  /\ (voting_phase = "Result" /\ AllVoted(voters)) => balance = 0

\* the last vote of three has moved the phase to Result and emptied the escrow
C4_Witness ==
  /\ voting_phase = "Result"
  /\ last.op = "vote"
  /\ Cardinality(DOMAIN voters) = 3
  /\ AllVoted(voters)
  /\ balance = 0
  /\ \A a \in DOMAIN voters : paid[a] = config.deposit

\* C5: a step in which a voter's vote gets stored pays that voter exactly
\* config.deposit out of the balance and pays nobody else
C5_VoteRefundsSender ==
  [][\A a \in DOMAIN voters :
       (/\ a \in DOMAIN voters'
        /\ voters[a].vote = EmptyVec
        /\ voters'[a].vote # EmptyVec)
         => /\ paid' = [paid EXCEPT ![a] = @ + config.deposit]
            /\ balance' = balance - config.deposit]_vars

\* a vote that did not end the Vote phase has paid its sender
C5_Witness ==
  /\ last.op = "vote"
  /\ voting_phase = "Vote"
  /\ voters[last.sender].vote # EmptyVec
  /\ paid[last.sender] = config.deposit
  /\ \A a \in Accounts \ {last.sender} : paid[a] = 0

\* the voter has the field the phase requires of it
HasRequiredField(a, phase) ==
  CASE phase = "Registration" -> voters[a].voting_key # EmptyVec
    [] phase = "Commit" -> voters[a].reconstructed_key # EmptyVec
    [] OTHER -> voters[a].vote # EmptyVec

StallingIn(phase) == {a \in DOMAIN voters : ~HasRequiredField(a, phase)}

\* a step of change_phase that aborts the vote
AbortStep == voting_phase # "Abort" /\ voting_phase' = "Abort"

RewardsOf(transfers) == SelectSeq(transfers, LAMBDA t : t.why = "reward")

RefundsTo(transfers, a) ==
  SumAmounts(SelectSeq(transfers, LAMBDA t : t.why = "refund" /\ t.to = a))

VotedCount == Cardinality({a \in DOMAIN voters : voters[a].vote # EmptyVec})

\* the deposits the tests expect refund_deposits to pay out in phase Vote:
\* one per voter that voted, and one more to a caller that voted when
\* somebody did not
ExpectedVoteAbortPayout(caller) ==
  config.deposit *
    (VotedCount +
       (IF voters[caller].vote # EmptyVec /\ VotedCount < Cardinality(DOMAIN voters)
          THEN 1 ELSE 0))

\* C8: with three voters in phase Vote, refund_deposits called by any of them
\* takes a balance of 3 x deposit down by one deposit per voter that voted,
\* plus one deposit of reward for a caller that voted while another had not
C8_RefundInVotePhase ==
  (voting_phase = "Vote" /\ Cardinality(DOMAIN voters) = 3) =>
    \A caller \in DOMAIN voters :
      3 * config.deposit
        - SumAmounts(refund_deposits(caller, voters, "Vote", config.deposit))
      = 3 * config.deposit - ExpectedVoteAbortPayout(caller)

\* C9: after an abort, a voter missing the field of the aborted phase has
\* been paid nothing over the whole run
C9_StallingPaidNothing ==
  aborted_from # "none" =>
    \A a \in StallingIn(aborted_from) : paid[a] = 0

\* a voter who did not commit called the abort of the Commit phase itself,
\* and the abort paid the others
C9_Witness ==
  /\ voting_phase = "Abort"
  /\ aborted_from = "Commit"
  /\ last.sender \in StallingIn("Commit")
  /\ paid[last.sender] = 0
  /\ \E a \in DOMAIN voters : paid[a] = config.deposit

Unrefunded == Cardinality(DOMAIN voters \ refunded)

\* C10 as stated: the balance is at least one deposit per registered voter
\* that has not been refunded
C10_EscrowAsStated == balance >= Unrefunded * config.deposit

\* C10 amended: the balance is at least one deposit per registered voter not
\* yet refunded, less the reward paid to the caller of an abort; the reward
\* is at most one deposit and is paid in no phase but Abort
C10_EscrowAmended ==
  /\ balance + rewards >= Unrefunded * config.deposit
  /\ rewards <= config.deposit
  /\ voting_phase # "Abort" => rewards = 0

\* the reward of an abort was taken out of a stalling voter's deposit
C10_Witness ==
  /\ voting_phase = "Abort"
  /\ rewards = config.deposit
  /\ Unrefunded > 0
  /\ balance = Unrefunded * config.deposit - rewards

\* C11: the voting keys stored for two distinct voter records differ, and
\* every stored voting key decodes to a point other than the identity
C11_DistinctValidKeys ==
  /\ \A a, b \in DOMAIN voters :
       a # b => voters[a].voting_key # voters[b].voting_key
  /\ \A a \in DOMAIN voters : from_sec1_bytes(voters[a].voting_key) # None

\* the encoded key the derivation gives voter a: the sum of the stored keys
\* before the position of a's key minus the sum of those after it
DerivedFor(a) ==
  LET keys == VotingKeys(voters)
  IN PointToBytes(ReconstructedAt(keys,
       Position(keys, from_sec1_bytes(voters[a].voting_key))))

\* commit(sender, m) gets as far as comparing the reconstructed key
CommitReachesKey(sender, m) ==
  /\ voting_phase = "Commit"
  /\ sender \in DOMAIN voters
  /\ now <= config.commit_timeout
  /\ m.commitment # EmptyVec
  /\ m.reconstructed_key # EmptyVec

VoteDigest(vec) == Sha256(PointToBytes(from_sec1_bytes(vec)))

\* vote(sender, m) gets as far as comparing the vote with the commitment:
\* the proof has verified and the vote decodes
VoteReachesCommitment(sender, m) ==
  /\ voting_phase = "Vote"
  /\ sender \in DOMAIN voters
  /\ now <= config.vote_timeout
  /\ voters[sender].vote = EmptyVec
  /\ from_sec1_bytes(voters[sender].reconstructed_key) # None
  /\ ~verify_one_in_two_traps(m.vote_zkp,
        from_sec1_bytes(voters[sender].reconstructed_key))
  /\ verify_one_in_two_zkp(m.vote_zkp,
        from_sec1_bytes(voters[sender].reconstructed_key))
  /\ from_sec1_bytes(m.vote) # None

\* C13: every set vote decodes to a point whose encoding hashes to the
\* voter's commitment; a vote with a verifying proof is stored if it hashes
\* to the stored commitment and otherwise fails with VoteCommitmentMismatch,
\* storing nothing and transferring nothing
C13_VoteMatchesCommitment ==
  /\ \A a \in DOMAIN voters :
       voters[a].vote # EmptyVec
         => /\ from_sec1_bytes(voters[a].vote) # None
            /\ VoteDigest(voters[a].vote) = voters[a].commitment
  /\ \A sender \in Registrants : \A m \in VoteMessages(sender) :
       VoteReachesCommitment(sender, m) =>
         IF VoteDigest(m.vote) = voters[sender].commitment
           THEN /\ vote(sender, m).err = "Ok"
                /\ vote(sender, m).voters[sender].vote = m.vote
           ELSE /\ vote(sender, m).err = "VoteCommitmentMismatch"
                /\ vote(sender, m).voters = voters
                /\ vote(sender, m).transfers = << >>

\* a voter has just voted as committed while another voter holds a vote with
\* a verifying proof that its commitment does not match
C13_Witness ==
  /\ voting_phase = "Vote"
  /\ last.op = "vote"
  /\ VoteDigest(voters[last.sender].vote) = voters[last.sender].commitment
  /\ \E sender \in Registrants : \E m \in VoteMessages(sender) :
       /\ VoteReachesCommitment(sender, m)
       /\ VoteDigest(m.vote) # voters[sender].commitment
       /\ vote(sender, m).err = "VoteCommitmentMismatch"

\* C14: in every voter record, a set vote comes with a set commitment and a
\* set reconstructed_key, and a set commitment comes with a set voting_key
C14_FieldImplications ==
  \A a \in DOMAIN voters :
    /\ voters[a].vote # EmptyVec
         => /\ voters[a].commitment # EmptyVec
            /\ voters[a].reconstructed_key # EmptyVec
    /\ voters[a].commitment # EmptyVec => voters[a].voting_key # EmptyVec

\* one voter has voted, another has committed and not voted
C14_Witness ==
  /\ last.op = "vote"
  /\ voters[last.sender].vote # EmptyVec
  /\ voters[last.sender].commitment # EmptyVec
  /\ voters[last.sender].voting_key # EmptyVec
  /\ \E a \in DOMAIN voters :
       voters[a].vote = EmptyVec /\ voters[a].commitment # EmptyVec

\* the accounts whose leaf is in the configured tree
AuthorizedVoters ==
  {a \in Accounts :
     \E i \in 1 .. config.merkle_leaf_count :
       config.merkle_root[i] = AccountLeaf(a)}

\* a step of a successful register: a record is added
RegisterStep == DOMAIN voters' # DOMAIN voters

\* C15: a successful register leaves the phase at Commit if after it every
\* authorized voter has a record with a set voting key, and at Registration
\* otherwise
C15_RegisterAutoAdvance ==
  [][RegisterStep =>
       voting_phase' =
         IF \A a \in AuthorizedVoters :
              a \in DOMAIN voters' /\ voters'[a].voting_key # EmptyVec
           THEN "Commit" ELSE "Registration"]_vars

\* the third of three authorized voters has registered
C15_Witness ==
  /\ last.op = "register"
  /\ voting_phase = "Commit"
  /\ config.merkle_leaf_count = 3
  /\ DOMAIN voters = AuthorizedVoters
  /\ \A a \in DOMAIN voters : voters[a].voting_key # EmptyVec

KeyedVoters == {a \in DOMAIN voters : voters[a].voting_key # EmptyVec}

\* what the refund of an abort of the given phase pays account a when sender
\* calls it: a deposit back if a is honest and the phase is not Vote, and a
\* deposit of reward if a is the sender, does not stall and somebody stalls
AbortPayment(a, sender, phase) ==
  config.deposit *
    ((IF a \in DOMAIN voters \ StallingIn(phase) /\ phase # "Vote"
        THEN 1 ELSE 0)
     + (IF a = sender /\ sender \notin StallingIn(phase)
             /\ StallingIn(phase) # {}
          THEN 1 ELSE 0))

\* the outcome runs the refund of the given phase and moves to Abort
IsAbortOf(out, sender, phase) ==
  /\ out.err = "Ok"
  /\ out.phase = "Abort"
  /\ out.voters = voters
  /\ out.result = voting_result
  /\ \A a \in Accounts : PaidTo(out.transfers, a) = AbortPayment(a, sender, phase)

\* the outcome moves to the given phase and does nothing else
IsMoveTo(out, phase) ==
  /\ out.err = "Ok"
  /\ out.phase = phase
  /\ out.voters = voters
  /\ out.result = voting_result
  /\ out.transfers = << >>

\* C16: in phase Registration with now > t_reg, change_phase by any account
\* moves to Commit without a transfer if at least 3 voters have a set voting
\* key, and otherwise runs the refund and moves to Abort
C16_RegistrationTimeout ==
  (voting_phase = "Registration" /\ now > config.registration_timeout) =>
    \A sender \in Accounts :
      IF Cardinality(KeyedVoters) >= 3
        THEN IsMoveTo(change_phase(sender), "Commit")
        ELSE IsAbortOf(change_phase(sender), sender, "Registration")

\* change_phase has moved a registration of three out of four authorized
\* voters on to Commit after the timeout
C16_Witness ==
  /\ last.op = "change_phase"
  /\ last.from = "Registration"
  /\ voting_phase = "Commit"
  /\ Cardinality(KeyedVoters) = 3
  /\ config.merkle_leaf_count = 4
  /\ now > config.registration_timeout
  /\ balance = 3 * config.deposit

\* every record of the map has the fields the phase asks for
CompleteIn(vs, phase) ==
  \A a \in DOMAIN vs :
    IF phase = "Commit"
      THEN vs[a].reconstructed_key # EmptyVec /\ vs[a].commitment # EmptyVec
      ELSE vs[a].vote # EmptyVec

PhaseComplete(phase) == CompleteIn(voters, phase)

\* what C17 says of change_phase by sender in the given phase, which ends at
\* timeout and is followed by next
ChangeAsClaimed(sender, phase, timeout, next) ==
  IF PhaseComplete(phase) THEN IsMoveTo(change_phase(sender), next)
  ELSE IF now > timeout THEN IsAbortOf(change_phase(sender), sender, phase)
  ELSE IsMoveTo(change_phase(sender), phase)

StepOf(op) == last'.op = op /\ (last' # last \/ voters' # voters)

\* C18: a successful commit leaves the phase at Vote if after it every record
\* has reconstructed_key and commitment set and at Commit otherwise; a
\* successful vote leaves the phase at Result if after it every record has
\* its vote set and at Vote otherwise
C18_CommitVoteAutoAdvance ==
  [][/\ StepOf("commit") =>
          voting_phase' =
            IF CompleteIn(voters', "Commit") THEN "Vote" ELSE "Commit"
     /\ StepOf("vote") =>
          voting_phase' =
            IF CompleteIn(voters', "Vote") THEN "Result" ELSE "Vote"]_vars

\* the last of three voters has committed and the phase is Vote
C18_Witness ==
  /\ last.op = "commit"
  /\ last.from = "Commit"
  /\ voting_phase = "Vote"
  /\ Cardinality(DOMAIN voters) = 3
  /\ CompleteIn(voters, "Commit")
  /\ ~CompleteIn(voters, "Vote")

\* C19: in phase Registration with now <= t_reg, change_phase by any account
\* succeeds and leaves the phase, the voters map and the tally as they are
\* and transfers nothing, so the balance stays as it is
C19_RegistrationNotOver ==
  (voting_phase = "Registration" /\ now <= config.registration_timeout) =>
    \A sender \in Accounts :
      /\ IsMoveTo(change_phase(sender), "Registration")
      /\ balance - SumAmounts(change_phase(sender).transfers) = balance

\* change_phase has been called before the timeout with three of four
\* authorized voters registered, and the registration is still open
C19_Witness ==
  /\ last.op = "change_phase"
  /\ last.from = "Registration"
  /\ last.transfers = << >>
  /\ voting_phase = "Registration"
  /\ now <= config.registration_timeout
  /\ Cardinality(KeyedVoters) = 3
  /\ balance = 3 * config.deposit
  /\ voting_result = << -1, -1 >>

\* the proof shows that its leaf is in the configured tree
IsInclusionProof(merkle_proof) ==
  /\ merkle_proof.index \in 0 .. (config.merkle_leaf_count - 1)
  /\ config.merkle_root[merkle_proof.index + 1] = merkle_proof.leaf

\* the proof is an inclusion proof of the leaf of the sender's own identity
ProvesSender(merkle_proof, sender) ==
  IsInclusionProof(merkle_proof) /\ merkle_proof.leaf = AccountLeaf(sender)

\* register gets as far as the authorization of its sender
RegisterReachesProof(deposit) ==
  /\ voting_phase = "Registration"
  /\ deposit = config.deposit
  /\ now <= config.registration_timeout

\* C20: a register by an account that gets as far as the authorization and
\* whose Merkle proof does not verify for the sender's own identity, be it
\* an inclusion proof of another account's leaf, fails with UnauthorizedVoter
\* and leaves the voters map as it is
C20_UnauthorizedRejected ==
  \A sender \in Accounts : \A m \in RegisterMessages(sender) :
    (RegisterReachesProof(config.deposit)
       /\ ~ProvesSender(m.merkle_proof, sender))
      => /\ register(sender, config.deposit, m).err = "UnauthorizedVoter"
         /\ register(sender, config.deposit, m).voters = voters

\* account 2 has registered; account 1 holds an inclusion proof of account
\* 2's leaf, which register turns down
C20_Witness ==
  /\ last.op = "register"
  /\ last.sender = 2
  /\ RegisterReachesProof(config.deposit)
  /\ \E m \in RegisterMessages(1) :
       /\ IsInclusionProof(m.merkle_proof)
       /\ m.merkle_proof.leaf = AccountLeaf(2)
       /\ register(1, config.deposit, m).err = "UnauthorizedVoter"

\* the outcome is a failure that changes nothing
IsFailure(out) ==
  /\ out.err # "Ok"
  /\ out.voters = voters
  /\ out.phase = voting_phase
  /\ out.result = voting_result
  /\ out.transfers = << >>

\* every register of an account with a record fails and changes nothing,
\* with AlreadyRegistered if it gets past the authorization
RegisteredIsTurnedDown ==
  \A sender \in DOMAIN voters : \A m \in RegisterMessages(sender) :
    \A deposit \in {config.deposit - 1, config.deposit} :
      /\ IsFailure(register(sender, deposit, m))
      /\ (RegisterReachesProof(deposit) /\ ProvesSender(m.merkle_proof, sender))
           => register(sender, deposit, m).err = "AlreadyRegistered"

\* a step that takes a deposit adds the record of its sender, who had none,
\* and takes one deposit; no step replaces a stored voting key
DepositTakenOnce ==
  /\ balance' > balance =>
       /\ last'.sender \in Accounts \ DOMAIN voters
       /\ DOMAIN voters' = DOMAIN voters \cup {last'.sender}
       /\ balance' = balance + config.deposit
  /\ \A a \in DOMAIN voters :
       a \in DOMAIN voters' /\ voters'[a].voting_key = voters[a].voting_key

\* C21: register by an account that has a voter record fails, with
\* AlreadyRegistered when the call passes the checks before the lookup, and
\* changes nothing; a deposit is taken only together with a new record, and
\* a stored voting key is never replaced
C21_AlreadyRegistered ==
  [] RegisteredIsTurnedDown /\ [][DepositTakenOnce]_vars

\* account 3 has registered and holds a key and proof another voter
\* published, which register now turns down with AlreadyRegistered
C21_Witness ==
  /\ last.op = "register"
  /\ last.sender = 3
  /\ RegisterReachesProof(config.deposit)
  /\ balance = Cardinality(DOMAIN voters) * config.deposit
  /\ \E m \in RegisterMessages(3) :
       /\ m.voting_key # voters[3].voting_key
       /\ ProvesSender(m.merkle_proof, 3)
       /\ register(3, config.deposit, m).err = "AlreadyRegistered"

Voted(a) == a \in DOMAIN voters /\ voters[a].vote # EmptyVec

\* every vote of a voter whose vote is set fails and changes nothing, with
\* AlreadyVoted while the phase is Vote and its timeout has not passed
VotedIsTurnedDown ==
  \A sender \in Registrants : \A m \in VoteMessages(sender) :
    Voted(sender) =>
      /\ IsFailure(vote(sender, m))
      /\ (voting_phase = "Vote" /\ now <= config.vote_timeout)
           => vote(sender, m).err = "AlreadyVoted"

\* up to an abort the only payments are the refunds of vote: one deposit to
\* each voter that has voted
OneRefundPerVote ==
  aborted_from = "none" =>
    \A a \in Accounts :
      paid[a] = IF Voted(a) THEN config.deposit ELSE 0

\* the transfers the step issues
StepTransfers == IF last' # last THEN last'.transfers ELSE << >>

\* a set vote and its proof stay as they are, and no step refunds a voter
\* that has voted
VoteKept ==
  \A a \in DOMAIN voters :
    Voted(a) =>
      /\ a \in DOMAIN voters'
      /\ voters'[a].vote = voters[a].vote
      /\ voters'[a].vote_zkp = voters[a].vote_zkp
      /\ RefundsTo(StepTransfers, a) = 0

\* C22: a vote by a voter whose vote is set fails (with AlreadyVoted while
\* the Vote phase is open) and changes nothing; a set vote and its proof
\* never change; nobody is refunded by vote more than once
C22_AlreadyVoted ==
  [] (VotedIsTurnedDown /\ OneRefundPerVote) /\ [][VoteKept]_vars

\* voter 2 has voted, the phase is still Vote, and its other vote, proof
\* and all, is turned down with AlreadyVoted
C22_Witness ==
  /\ voting_phase = "Vote"
  /\ now <= config.vote_timeout
  /\ last.op = "vote"
  /\ last.sender = 2
  /\ paid[2] = config.deposit
  /\ \E m \in VoteMessages(2) :
       /\ from_sec1_bytes(m.vote) # from_sec1_bytes(voters[2].vote)
       /\ verify_one_in_two_zkp(m.vote_zkp,
            from_sec1_bytes(voters[2].reconstructed_key))
       /\ vote(2, m).err = "AlreadyVoted"

\* the outcome is a failure with the given error that changes nothing
FailsWith(out, err) == IsFailure(out) /\ out.err = err

\* after its timeout an entry point turns down, with PhaseEnded, every call
\* that passes the checks before the one of the time
LateIsTurnedDown ==
  /\ (voting_phase = "Registration" /\ now > config.registration_timeout) =>
       \A sender \in Accounts : \A m \in RegisterMessages(sender) :
         FailsWith(register(sender, config.deposit, m), "PhaseEnded")
  /\ (voting_phase = "Commit" /\ now > config.commit_timeout) =>
       \A sender \in DOMAIN voters : \A m \in CommitMessages(sender) :
         FailsWith(commit(sender, m), "PhaseEnded")
  /\ (voting_phase = "Vote" /\ now > config.vote_timeout) =>
       \A sender \in DOMAIN voters \cap Registrants :
         \A m \in VoteMessages(sender) :
           FailsWith(vote(sender, m), "PhaseEnded")

\* up to and at the timeout the register of an authorized account without a
\* record, with its own key, proof and deposit, is accepted
TimelyIsAccepted ==
  (voting_phase = "Registration" /\ now <= config.registration_timeout) =>
    \A sender \in AuthorizedVoters \ DOMAIN voters :
      \A k \in HonestKeyAndProofs(sender) :
        register(sender, config.deposit,
                 [voting_key |-> k.voting_key,
                  voting_key_zkp |-> k.voting_key_zkp,
                  merkle_proof |-> OwnMerkleProof(sender)]).err = "Ok"

\* a successful register, commit or vote runs no later than its timeout
AcceptedInTime ==
  /\ StepOf("register") => now <= config.registration_timeout
  /\ StepOf("commit") => now <= config.commit_timeout
  /\ StepOf("vote") => now <= config.vote_timeout

\* C23: register, commit and vote are accepted only up to and including
\* their timeout (t_reg, t_commit, t_vote); after it a call in the right
\* phase that passes the earlier checks fails with PhaseEnded and changes
\* nothing
C23_Timeouts ==
  [] (LateIsTurnedDown /\ TimelyIsAccepted) /\ [][AcceptedInTime]_vars

\* at now = t_reg account 1 has registered and account 2 can still register
C23_Witness ==
  /\ voting_phase = "Registration"
  /\ now = config.registration_timeout
  /\ last.op = "register"
  /\ DOMAIN voters = {1}
  /\ 2 \in AuthorizedVoters
  /\ \E k \in HonestKeyAndProofs(2) :
       register(2, config.deposit,
                [voting_key |-> k.voting_key,
                 voting_key_zkp |-> k.voting_key_zkp,
                 merkle_proof |-> OwnMerkleProof(2)]).err = "Ok"

\* in a phase other than its own, every call of an entry point by an account
\* fails with the phase error of the entry point and changes nothing
WrongPhaseIsTurnedDown ==
  \A sender \in Accounts :
    /\ voting_phase # "Registration" =>
         \A m \in RegisterMessages(sender) :
           \A deposit \in {config.deposit - 1, config.deposit} :
             FailsWith(register(sender, deposit, m), "NotRegistrationPhase")
    /\ voting_phase # "Commit" =>
         \A m \in CommitMessages(sender) :
           FailsWith(commit(sender, m), "NotCommitPhase")
    /\ voting_phase # "Vote" =>
         \A m \in VoteMessages(sender) :
           FailsWith(vote(sender, m), "NotVotePhase")
    /\ voting_phase # "Result" =>
         FailsWith(result(sender), "NotResultPhase")

\* a successful register, commit, vote or result starts in its phase
AcceptedInPhase ==
  /\ StepOf("register") => voting_phase = "Registration"
  /\ StepOf("commit") => voting_phase = "Commit"
  /\ StepOf("vote") => voting_phase = "Vote"
  /\ StepOf("result") => voting_phase = "Result"

\* C24: register succeeds only in phase Registration, commit only in Commit,
\* vote only in Vote and result only in Result; called by an account in
\* another phase each fails with its phase error (NotRegistrationPhase,
\* NotCommitPhase, NotVotePhase, NotResultPhase) and changes nothing
C24_PhaseMismatch ==
  [] WrongPhaseIsTurnedDown /\ [][AcceptedInPhase]_vars

\* in phase Registration a registered voter's commit, well-formed for the
\* keys stored so far, is turned down with NotCommitPhase
C24_Witness ==
  /\ voting_phase = "Registration"
  /\ last.op = "register"
  /\ Cardinality(DOMAIN voters) = 2
  /\ now <= config.commit_timeout
  /\ \E m \in CommitMessages(last.sender) :
       /\ m.reconstructed_key = DerivedFor(last.sender)
       /\ m.commitment # EmptyVec
       /\ commit(last.sender, m).err = "NotCommitPhase"

\* ---------------------------------------------------------------------
\* C25  failed invocations leave no trace

\* every invocation the accounts make in the current state, with the amount
\* it carries and what its handler leaves behind
Invocations ==
  {[amount |-> config.deposit, out |-> register(sender, config.deposit, m)] :
     sender \in Registrants, m \in UNION {RegisterMessages(a) : a \in Registrants}}
  \cup {[amount |-> 0, out |-> commit(sender, m)] :
          sender \in {0} \cup Registrants,
          m \in UNION {CommitMessages(a) : a \in {0} \cup Registrants}}
  \cup {[amount |-> 0, out |-> vote(sender, m)] :
          sender \in {0} \cup Registrants,
          m \in UNION {VoteMessages(a) : a \in {0} \cup Registrants}}
  \cup {[amount |-> 0, out |-> result(sender)] : sender \in Senders}
  \cup {[amount |-> 0, out |-> change_phase(sender)] : sender \in Senders}

ContractState == << voters, voting_phase, voting_result, balance >>

\* the step is the whole effect of the invocation, amount and transfers
\* included
EffectOf(invocation) ==
  /\ voters' = invocation.out.voters
  /\ voting_phase' = invocation.out.phase
  /\ voting_result' = invocation.out.result
  /\ balance' = balance + invocation.amount
                  - SumAmounts(invocation.out.transfers)

\* a register that fails on the voting key or on its proof has already
\* inserted the empty record of the sender
RegisterFailsAfterInsert(err) ==
  \E sender \in Registrants :
    \E m \in RegisterMessages(sender) :
      /\ register(sender, config.deposit, m).err = err
      /\ sender \notin DOMAIN voters
      /\ sender \in DOMAIN register(sender, config.deposit, m).voters

ChangedBySuccess ==
  ContractState' # ContractState =>
    \E invocation \in Invocations :
      /\ invocation.out.err = "Ok"
      /\ EffectOf(invocation)

\* C25: the state and the balance of the contract change only as the whole
\* effect of an invocation that returned Ok: whatever an invocation wrote
\* before it returned an error (the empty record register inserts before it
\* rejects the voting key or its proof, the vote stored before the refund
\* transfer fails) is not there afterwards, and neither is its amount.
C25_FailureChangesNothing == [][ChangedBySuccess]_vars

C25_Witness ==
  /\ RegisterFailsAfterInsert("InvalidVotingKey")
  /\ RegisterFailsAfterInsert("InvalidZKP")
  /\ DOMAIN voters # {}

\* ---------------------------------------------------------------------
\* C26  the voter set

\* no step removes a record
RecordsKept == DOMAIN voters \subseteq DOMAIN voters'

\* a record appears only for the sender of a successful register that
\* started in phase Registration
AddedByRegister ==
  DOMAIN voters' # DOMAIN voters =>
    /\ voting_phase = "Registration"
    /\ last'.op = "register"
    /\ last'.from = "Registration"
    /\ DOMAIN voters' = DOMAIN voters \cup {last'.sender}
    /\ last'.sender \notin DOMAIN voters

\* once registration is over neither the identities nor their keys change
FrozenAfterRegistration ==
  voting_phase # "Registration" =>
    /\ DOMAIN voters' = DOMAIN voters
    /\ \A a \in DOMAIN voters :
         voters'[a].voting_key = voters[a].voting_key

\* C26: a voter record is added only by a successful register in phase
\* Registration, no operation removes one, and after the phase has left
\* Registration the set of voter identities and their voting keys stays
\* as it is.
C26_VoterSetFixed ==
  [][RecordsKept /\ AddedByRegister /\ FrozenAfterRegistration]_vars

C26_Witness ==
  /\ voting_phase = "Result"
  /\ last.op = "result"
  /\ Cardinality(DOMAIN voters) = 3
  /\ \A a \in DOMAIN voters : voters[a].voting_key # EmptyVec

\* ---------------------------------------------------------------------
\* C27  setup

OrderedTimeouts(slot_time, vote_config) ==
  /\ slot_time < vote_config.registration_timeout
  /\ vote_config.registration_timeout < vote_config.commit_timeout
  /\ vote_config.commit_timeout < vote_config.vote_timeout

\* the error the claim names for the first inequality that fails
ClaimedSetupError(slot_time, vote_config) ==
  IF ~(slot_time < vote_config.registration_timeout)
    THEN "InvalidRegistrationTimeout"
  ELSE IF ~(vote_config.registration_timeout < vote_config.commit_timeout)
    THEN "InvalidPrecommitTimeout"
  ELSE IF ~(vote_config.commit_timeout < vote_config.vote_timeout)
    THEN "InvalidVoteTimeout"
  ELSE "Ok"

SetupAnswersAsClaimed ==
  voting_phase = "Uninitialized" =>
    /\ setup(now, config).err = "Ok" <=> OrderedTimeouts(now, config)
    /\ setup(now, config).err = ClaimedSetupError(now, config)

SetupStep ==
  voting_phase = "Uninitialized" /\ voting_phase' # "Uninitialized" =>
    IF OrderedTimeouts(now, config)
      THEN /\ voting_phase' = "Registration"
           /\ voting_result' = << -1, -1 >>
           /\ voters' = << >>
           /\ config' = config
      ELSE voting_phase' = "NoInstance"

\* C27: setup succeeds exactly when slot time < registration_timeout <
\* commit_timeout < vote_timeout; the first of the three inequalities that
\* fails decides the error, InvalidRegistrationTimeout,
\* InvalidPrecommitTimeout or InvalidVoteTimeout; a successful setup gives
\* phase Registration, the tally (-1, -1), no voters and the config it was
\* called with.
C27_Setup == [] SetupAnswersAsClaimed /\ [][SetupStep]_vars

C27_Witness ==
  /\ last.op = "setup"
  /\ voting_phase = "Registration"
  /\ config.registration_timeout = now + 1
  /\ config.commit_timeout = config.registration_timeout + 1
  /\ config.vote_timeout = config.commit_timeout + 1
  /\ now > 0

\* ---------------------------------------------------------------------
\* C28  the order of the voting keys

\* a successful register puts the key of its sender behind the keys that
\* are already in the list commit derives reconstructed keys from
RegisterAppendsKey ==
  DOMAIN voters' # DOMAIN voters =>
    /\ VoterOrder(voters') = Append(VoterOrder(voters), last'.sender)
    /\ VotingKeys(voters') =
         Append(VotingKeys(voters),
                from_sec1_bytes(voters'[last'.sender].voting_key))

\* C28: the list of voting keys commit derives the reconstructed keys from,
\* which is also the order result goes through the votes, is the order in
\* which the successful registers were made: each register appends the key
\* of its sender to the list.
C28_InsertionOrder == [][RegisterAppendsKey]_vars

\* ---------------------------------------------------------------------
\* C29  the tally search

\* the votes result() hands to brute_force_tally
StoredVotes ==
  [i \in 1 .. Len(VoterOrder(voters)) |->
     from_sec1_bytes(voters[VoterOrder(voters)[i]].vote)]

\* the number of times the search loop adds the generator: yes_votes is
\* incremented once with every addition
GeneratorAdditions(votes) == brute_force_tally(votes)

\* C29: in phase Result, whatever votes the vote operation has stored, the
\* search loop of brute_force_tally adds the generator at most N times, N
\* the number of voters.
C29_TallySearchBounded ==
  (/\ voting_phase = "Result"
   /\ Len(StoredVotes) > 0
   /\ \A i \in 1 .. Len(StoredVotes) : StoredVotes[i] # None)
    => GeneratorAdditions(StoredVotes) <= Cardinality(DOMAIN voters)

\* ---------------------------------------------------------------------
\* C30  completeness of the Schnorr proof

\* the verifier runs to its end on the proof and returns true
SchnorrAccepts(g_x, schnorr) ==
  /\ ~verify_schnorr_traps(g_x, schnorr)
  /\ verify_schnorr_zkp(g_x, schnorr)

\* C30: for the secret x of account 1 and every nonce w (both from
\* [1, n-1]) for which the prover outputs a proof, verify_schnorr_zkp
\* accepts the proof (W, r) = ([w]G, w - x*z) for X = [x]G.
C30_SchnorrComplete ==
  \A w \in 1 .. (Order - 1) :
    (sk[1] # 0 /\ ~SchnorrProverPanics(VotingKeyOf(1), w)) =>
      SchnorrAccepts(VotingKeyOf(1),
                     create_schnorr_zkp(VotingKeyOf(1), sk[1], w))

\* ---------------------------------------------------------------------
\* C31  completeness of the one-in-two proof

\* the randomness of the provers, each scalar from [1, n-1]
AllRandomness ==
  {<< w, r, d >> : w \in 1 .. (Order - 1), r \in 1 .. (Order - 1),
                   d \in 1 .. (Order - 1)}

OneInTwoAccepts(zkp, g_y) ==
  /\ ~verify_one_in_two_traps(zkp, g_y)
  /\ verify_one_in_two_zkp(zkp, g_y)

\* voters whose secret is in [1, n-1] and whose reconstructed key is stored
Provers ==
  {a \in DOMAIN voters :
     /\ sk[a] # 0
     /\ voters[a].voting_key = PointToBytes(VotingKeyOf(a))
     /\ from_sec1_bytes(voters[a].reconstructed_key) # None}

\* C31: in phase Vote, for every voter with secret x and stored
\* reconstructed key H and for every randomness of the prover, the proof the
\* yes prover outputs and the proof the no prover outputs are both accepted
\* by verify_one_in_two_zkp under H.
C31_OneInTwoComplete ==
  voting_phase = "Vote" =>
    \A a \in Provers :
      \A z \in YesProofsWith(a, AllRandomness)
                 \cup NoProofsWith(a, AllRandomness) :
        OneInTwoAccepts(z, from_sec1_bytes(voters[a].reconstructed_key))

\* ---------------------------------------------------------------------
\* C32  the reconstructed keys and the secrets cancel

Derived == last.op = "compute_reconstructed_key"

\* the reconstructed key account a has derived
DerivedPoint(a) == voters[a].reconstructed_key[1]

DistinctKeys ==
  \A i, j \in DOMAIN KeyList : i # j => KeyList[i] # KeyList[j]

RECURSIVE SumOver(_, _, _)
\* sum of f[a] for a in lo..hi
SumOver(f, lo, hi) ==
  IF lo > hi THEN IDENTITY ELSE PAdd(f[lo], SumOver(f, lo + 1, hi))

\* C32 as stated: for every list of N >= 2 voting keys the reconstructed
\* keys of the N voters sum to the identity.
C32_KeysSumToZero ==
  Derived =>
    SumOver([a \in DOMAIN voters |-> DerivedPoint(a)],
            1, Len(KeyList)) = IDENTITY

\* C32 amended: for every list of N >= 2 pairwise different voting keys
\* X_i = [x_i]G the reconstructed keys weighted with the secrets sum to the
\* identity, sum over i of [x_i]H_i = 0.
C32_WeightedKeysSumToZero ==
  (Derived /\ DistinctKeys) =>
    SumOver([a \in DOMAIN voters |-> PMul(DerivedPoint(a), sk[a])],
            1, Len(KeyList)) = IDENTITY

C32_Witness ==
  /\ Derived
  /\ DistinctKeys
  /\ Len(KeyList) = 4
  /\ \A a \in DOMAIN voters : DerivedPoint(a) # IDENTITY /\ sk[a] # 0
  /\ SumOver([a \in DOMAIN voters |-> DerivedPoint(a)], 1, 4) # IDENTITY

\* ---------------------------------------------------------------------
\* C33  the reconstructed key of every position

\* the sum of the votes [x_i]H_i + [v_i]G the voters would cast with the
\* choices v
SumOfVotes(v) ==
  SumOver([a \in DOMAIN voters |->
             PAdd(PMul(DerivedPoint(a), sk[a]), PMul(GENERATOR, v[a]))],
          1, Len(KeyList))

RECURSIVE SumChoices(_, _)
SumChoices(v, hi) == IF hi = 0 THEN 0 ELSE v[hi] + SumChoices(v, hi - 1)

\* C33: for a list of N >= 2 pairwise different keys, the key derived for
\* every position i, the first and the last included, is the sum of the
\* keys before i minus the sum of the keys after i; so the secrets cancel
\* and the votes [x_i]H_i + [v_i]G sum to [sum of v_i]G for every choice of
\* the v_i in {0, 1}.
C33_ReconstructedKeyFormula ==
  (Derived /\ DistinctKeys) =>
    /\ \A a \in DOMAIN voters :
         DerivedPoint(a) = ReconstructedAt(KeyList, a)
    /\ \A v \in [DOMAIN voters -> {0, 1}] :
         SumOfVotes(v) = PMul(GENERATOR, SumChoices(v, Len(KeyList)))

C33_Witness ==
  /\ Derived
  /\ DistinctKeys
  /\ Len(KeyList) = 4
  /\ DerivedPoint(1) = PNeg(SumPoints(KeyList, 2, 4))
  /\ DerivedPoint(4) = SumPoints(KeyList, 1, 3)
  /\ DerivedPoint(2) # DerivedPoint(3)
  /\ \A a \in DOMAIN voters : DerivedPoint(a) # IDENTITY

\* ---------------------------------------------------------------------
\* C34  hash_to_scalar

\* the transcripts the Schnorr prover and verifier hash for the key of
\* account 1, one for every nonce
SchnorrTranscripts ==
  {PointToBytes(PAdd(PAdd(GENERATOR, PMul(GENERATOR, w)), VotingKeyOf(1))) :
     w \in Scalars}

\* the digest read as a big-endian integer and reduced modulo the order
ReducedDigest(bytes_to_hash) == Sha256(bytes_to_hash)[1] % Order

\* C34: hash_to_scalar, the contract's and the util crate's, returns for
\* every input the digest reduced modulo the group order; it has a value
\* for every digest, those not below the order and the digest 0 included.
C34_HashReduces ==
  \A bytes_to_hash \in SchnorrTranscripts :
    /\ hash_to_scalar(bytes_to_hash) = ReducedDigest(bytes_to_hash)
    /\ util_hash_to_scalar(bytes_to_hash) = ReducedDigest(bytes_to_hash)

\* ---------------------------------------------------------------------
\* C35  the stored vote and the proof that was verified

\* the stored vote of a is the ciphertext of its stored proof, and the key
\* of the proof is the registered voting key of a
VoteIsProved(a) ==
  /\ from_sec1_bytes(voters[a].vote) = from_sec1_bytes(voters[a].vote_zkp.y)
  /\ from_sec1_bytes(voters[a].vote_zkp.x) =
       from_sec1_bytes(voters[a].voting_key)

\* the stored vote of a is [x]H or [x]H + G for the secret x of its
\* registered key and its stored reconstructed key H
VoteEncodesBit(a) ==
  LET x == SecretOfKey(from_sec1_bytes(voters[a].voting_key))
      g_y == from_sec1_bytes(voters[a].reconstructed_key)
  IN from_sec1_bytes(voters[a].vote) \in
       {PMul(g_y, x), PAdd(PMul(g_y, x), GENERATOR)}

\* C35: every stored vote is the ciphertext Y of the stored (accepted)
\* one-in-two proof, the X of that proof is the voter's registered voting
\* key, and the stored vote encodes 0 or 1 under the voter's reconstructed
\* key.
C35_VoteBoundToProof ==
  \A a \in DOMAIN voters :
    HasVoted(a) => (VoteIsProved(a) /\ VoteEncodesBit(a))

\* ---------------------------------------------------------------------
\* C36  the number of participants

\* C36: whatever config setup accepted, while the phase is Commit, Vote or
\* Result at least 3 voters are registered.
C36_AtLeastThreeVoters ==
  voting_phase \in {"Commit", "Vote", "Result"} =>
    Cardinality(DOMAIN voters) >= 3

\* ---------------------------------------------------------------------
\* C37  a Commit phase that begins after its timeout

NobodyCommitted ==
  \A a \in DOMAIN voters : voters[a].reconstructed_key = EmptyVec

\* phase Commit after commit_timeout with no commit made: the state a late
\* change_phase out of Registration leaves, and every later Commit state
LateCommitPhase ==
  /\ voting_phase = "Commit"
  /\ now > config.commit_timeout
  /\ NobodyCommitted

\* no commit is accepted, whoever sends whatever
NoCommitAccepted ==
  \A sender \in Senders :
    \A m \in UNION {CommitMessages(a) : a \in {0} \cup Registrants} :
      commit(sender, m).err # "Ok"

\* change_phase moves from Registration to Commit after commit_timeout
LateStartStep ==
  /\ voting_phase = "Registration"
  /\ voting_phase' = "Commit"
  /\ now > config.commit_timeout

\* what can follow: the phase stays Commit, still late and without a commit,
\* or the vote is aborted with every voter stalling and no voter paid
LateCommitStep ==
  LateCommitPhase =>
    \/ LateCommitPhase'
    \/ /\ voting_phase' = "Abort"
       /\ StallingIn("Commit") = DOMAIN voters
       /\ \A a \in DOMAIN voters : paid'[a] = paid[a]
       /\ refunded' = refunded

VoteBeginsInTime ==
  (voting_phase # "Vote" /\ voting_phase' = "Vote") =>
    now <= config.commit_timeout

\* C37: when change_phase moves the phase to Commit at a time after
\* commit_timeout, no commit is accepted from then on, the phase can only
\* stay Commit or become Abort, and that abort finds every registered voter
\* stalling and pays none of them; the phase Vote only ever begins at a time
\* <= commit_timeout.
C37_LateCommit ==
  /\ [] (LateCommitPhase => NoCommitAccepted)
  /\ [][(LateStartStep => LateCommitPhase') /\ LateCommitStep
          /\ VoteBeginsInTime]_vars

C37_Witness ==
  /\ voting_phase = "Abort"
  /\ aborted_from = "Commit"
  /\ NobodyCommitted
  /\ Cardinality(DOMAIN voters) = 3
  /\ rewards = config.deposit
  /\ \A a \in DOMAIN voters : paid[a] = 0

\* ---------------------------------------------------------------------
\* C38  the vote ends once the vote timeout has passed

Terminal(phase) == phase \in {"Result", "Abort"}

AfterVoteTimeout == now > config.vote_timeout

\* after the vote timeout a change_phase by any account succeeds and ends
\* the vote, except in Registration with three keys, where it moves to
\* Commit; from Commit the next one ends it
TwoChangesSuffice ==
  (AfterVoteTimeout /\ ~Terminal(voting_phase)) =>
    \A sender \in Accounts :
      /\ change_phase(sender).err = "Ok"
      /\ \/ Terminal(change_phase(sender).phase)
         \/ /\ voting_phase = "Registration"
            /\ change_phase(sender).phase = "Commit"

\* C38: when the slot time has passed vote_timeout and change_phase keeps
\* being invoked by an account, the phase becomes Result or Abort; at most
\* two invocations of change_phase are needed for it and none of them
\* fails.
C38_VoteEnds ==
  /\ [] TwoChangesSuffice
  /\ (AfterVoteTimeout ~> Terminal(voting_phase))

C38_Witness ==
  /\ AfterVoteTimeout
  /\ voting_phase = "Abort"
  /\ aborted_from = "Commit"
  /\ last.op = "change_phase"
  /\ NobodyCommitted
  /\ Cardinality(DOMAIN voters) = 3

\* ---------------------------------------------------------------------
\* C39  nothing moves once the election is over

NoTally == << -1, -1 >>

\* the records, the parameters, the phase and the money stay as they are
TerminalFrame ==
  /\ voters' = voters
  /\ config' = config
  /\ voting_phase' = voting_phase
  /\ balance' = balance
  /\ paid' = paid
  /\ refunded' = refunded
  /\ rewards' = rewards

\* the tally is written by result() in phase Result only, and what it
\* writes is the tally of the stored votes, the same at every call
OnlyTallyWritten ==
  /\ voting_result' # voting_result =>
        /\ voting_phase = "Result"
        /\ last'.op = "result"
        /\ voting_result = NoTally
        /\ voting_result' = result(last'.sender).result
  /\ (last'.op = "result" /\ last' # last) =>
        voting_result' = result(last'.sender).result

\* C39: once the phase is Result or Abort no invocation makes a transfer
\* or changes the voters, the configuration or the phase; the only state
\* change left is result() writing the tally in phase Result, and calling
\* it again writes the same tally; what the contract still holds after an
\* abort stays in it.
C39_TerminalFrozen ==
  [][Terminal(voting_phase) => (TerminalFrame /\ OnlyTallyWritten)]_vars

C39_Witness ==
  /\ voting_phase = "Abort"
  /\ balance > 0
  /\ last.op = "change_phase"
  /\ last.from = "Abort"
  /\ Cardinality(DOMAIN voters) = 3

\* ---------------------------------------------------------------------
\* C40  the order of two voters' commits, and of their votes

\* the step is an accepted call of op by voter x
AcceptedStep(op, x) ==
  /\ vars' # vars
  /\ last'.op = op
  /\ last'.sender = x
  /\ now' = now

\* the registered voters other than x
Others(x) == (DOMAIN voters) \ {x}

HasCommitted(y) == voters[y].commitment # EmptyVec

\* a call accepted before x's call is accepted after it, and the other way
\* round
Independent(first, second) == (first.err = "Ok") <=> (second.err = "Ok")

BothAccepted(first, second) == first.err = "Ok" /\ second.err = "Ok"

\* x's commit, then y's: each of the two records is what its owner's call
\* stores when it comes first, all other records are untouched and the
\* phase follows from the records; the expression is the same with x and y
\* exchanged, so both orders end in the same state
CommitsCommute(x, y, first, second) ==
  /\ voting_phase' = "Commit"
  /\ second.voters =
       [voters EXCEPT ![x] = voters'[x], ![y] = first.voters[y]]
  /\ second.phase =
       (IF AllCommitted(second.voters) THEN "Vote" ELSE "Commit")
  /\ second.result = voting_result
  /\ second.transfers = << >>
  /\ last'.transfers = << >>

\* x's vote, then y's: the same for the records and the phase, and each
\* call transfers the deposit to its sender
VotesCommute(x, y, first, second) ==
  /\ voting_phase' = "Vote"
  /\ second.voters =
       [voters EXCEPT ![x] = voters'[x], ![y] = first.voters[y]]
  /\ second.phase =
       (IF AllVoted(second.voters) THEN "Result" ELSE "Vote")
  /\ second.transfers = first.transfers
  /\ first.transfers = << Transfer(y, config.deposit, "refund") >>
  /\ last'.transfers = << Transfer(x, config.deposit, "refund") >>

\* first is the outcome of y's call made before x's accepted call, second
\* the outcome of the same call made after it
CommitOrder(x, y, repeated) ==
  \A m \in CommitMessages(y) :
    \A first \in {commit(y, m)} : \A second \in {commit(y, m)'} :
      /\ (repeated \/ ~HasCommitted(y)) => Independent(first, second)
      /\ BothAccepted(first, second) => CommitsCommute(x, y, first, second)

VoteOrder(x, y) ==
  \A m \in VoteMessages(y) :
    \A first \in {vote(y, m)} : \A second \in {vote(y, m)'} :
      /\ Independent(first, second)
      /\ BothAccepted(first, second) => VotesCommute(x, y, first, second)

\* C40 as stated: the two orders of two voters' accepted commits end in the
\* same state, the two orders of their accepted votes end in the same
\* voters map, phase and transfers, and whether a commit or a vote of one
\* voter is accepted does not depend on the other voter's having committed
\* or voted.
C40_OrderIrrelevant ==
  [][\A x \in DOMAIN voters : \A y \in Others(x) :
       /\ AcceptedStep("commit", x) => CommitOrder(x, y, TRUE)
       /\ AcceptedStep("vote", x) => VoteOrder(x, y)]_vars

\* C40 amended: the same, with the independence of commits restricted to
\* the first commit of a voter; a voter that has committed can commit again
\* only until the last voter has committed, since that commit moves the
\* phase to Vote.
C40_OrderIrrelevantFirstCommit ==
  [][\A x \in DOMAIN voters : \A y \in Others(x) :
       /\ AcceptedStep("commit", x) => CommitOrder(x, y, FALSE)
       /\ AcceptedStep("vote", x) => VoteOrder(x, y)]_vars

C40_Witness ==
  /\ voting_phase = "Vote"
  /\ last.op = "vote"
  /\ Cardinality({a \in DOMAIN voters : voters[a].vote # EmptyVec}) = 2
  /\ Cardinality(refunded) = 2
  /\ Cardinality(DOMAIN voters) = 3

====
